---- MODULE Spec2Model ----
(***************************************************************************)
(* Expression evaluator of the Leo compiler                                *)
(* (compiler/src/constraints/expression.rs).                               *)
(*                                                                         *)
(* A constrained value is a record tagged by t; an evaluation threads a    *)
(* machine state m = [store, cs, log]: the scope store, the constraint     *)
(* system (the sequence of constraint groups emitted so far) and a history *)
(* of the collaborator calls made (gadgets, literal parser).  Every        *)
(* evaluator returns [res |-> Ok(v) or Err(e) or Abort, m |-> state].      *)
(***************************************************************************)
EXTENDS Integers, Sequences, FiniteSets, TLC

(***************************************************************************)
(* Bounds of the model.                                                    *)
(***************************************************************************)
\* deepest nesting of Mutable wrappers among the operands
MaxMutDepth == 2
\* most elements of an array literal
MaxArrayLen == 3
\* most keys bound in the scope store of an identifier lookup
MaxStoreKeys == 2
\* most field bindings of a record literal
MaxBindings == 3
\* modulus standing for the prime of the field (values are residues)
FieldModulus == 7
\* order of the additive group standing for the curve group
GroupOrder == 5

\* largest value of a u8 (Integer::U8)
MaxU8 == 2 ^ 8 - 1

(***************************************************************************)
(* Values, results, errors.                                                *)
(***************************************************************************)
BooleanV(b) == [t |-> "Boolean", b |-> b]
IntegerV(ty, n) == [t |-> "Integer", ty |-> ty, n |-> n]
FieldV(n) == [t |-> "FieldElement", n |-> n]
GroupV(n) == [t |-> "GroupElement", n |-> n]
ArrayV(elems) == [t |-> "Array", elems |-> elems]
MutableV(v) == [t |-> "Mutable", val |-> v]
UnresolvedV(text) == [t |-> "Unresolved", text |-> text]
\* members of a circuit definition, and a function of the program (its name and body)
CircuitFieldM(identifier, type) == [m |-> "CircuitField", identifier |-> identifier, type |-> type]
CircuitFunctionM(static, function) == [m |-> "CircuitFunction", static |-> static, function |-> function]
FunctionAst(function_name, body) == [function_name |-> function_name, body |-> body]
CircuitDefinitionV(identifier, members) == [t |-> "CircuitDefinition", identifier |-> identifier, members |-> members]
ConstrainedCircuitMember(identifier, value) == [id |-> identifier, val |-> value]
CircuitExpressionV(name, members) == [t |-> "CircuitExpression", name |-> name, members |-> members]
\* circuit_identifier is an Option: <<>> or <<identifier>>
FunctionV(circuit_identifier, function) == [t |-> "Function", circuit |-> circuit_identifier, function |-> function]
StaticV(v) == [t |-> "Static", val |-> v]
ReturnV(vals) == [t |-> "Return", vals |-> vals]

Ok(v) == [ok |-> TRUE, val |-> v]
Err(kind, msg) == [ok |-> FALSE, kind |-> kind, msg |-> msg]
\* unimplemented!() and out-of-range indexing end the process
Abort(why) == [ok |-> FALSE, kind |-> "abort", msg |-> why]

Out(res, m) == [res |-> res, m |-> m]
Emit(m, group) == [m EXCEPT !.cs = Append(@, group)]
Logged(m, what) == [m EXCEPT !.log = Append(@, what)]
\* history of the nodes handed to enforce_expression, with their expected types
Visited(m, expected_types, expression) ==
    [m EXCEPT !.visits = Append(@, [et |-> expected_types, expr |-> expression])]
\* the number of calls an operator has made to itself
Recursed(m) == [m EXCEPT !.recursions = @ + 1]
\* history of the calls of the function invoker, with the scope store at the call
Dispatched(m, scope, function) ==
    [m EXCEPT !.dispatches = Append(@, [scope |-> scope, function |-> function,
                                        store |-> m.store])]

(***************************************************************************)
(* Text: a literal's text is its sequence of decimal digits.               *)
(***************************************************************************)
DigitChar == <<"0", "1", "2", "3", "4", "5", "6", "7", "8", "9">>

RECURSIVE ParseNat(_)
ParseNat(text) ==
    IF text = <<>> THEN 0
    ELSE 10 * ParseNat(SubSeq(text, 1, Len(text) - 1)) + text[Len(text)]

\* the residue of the number a text denotes, digit by digit
RECURSIVE ParseMod(_, _)
ParseMod(text, q) ==
    IF text = <<>> THEN 0
    ELSE (10 * ParseMod(SubSeq(text, 1, Len(text) - 1), q) + text[Len(text)]) % q

RECURSIVE StripZeros(_)
StripZeros(text) ==
    IF text # <<>> /\ Head(text) = 0 THEN StripZeros(Tail(text)) ELSE text

\* digit by digit comparison of two texts of one length
RECURSIVE Greater(_, _)
Greater(a, b) ==
    IF a = <<>> THEN FALSE
    ELSE IF Head(a) # Head(b) THEN Head(a) > Head(b)
    ELSE Greater(Tail(a), Tail(b))

\* the number the text denotes is larger than the number the limit denotes
Exceeds(text, limit) ==
    LET digits == StripZeros(text)
    IN \/ Len(digits) > Len(limit)
       \/ Len(digits) = Len(limit) /\ Greater(digits, limit)

\* usize::MAX of a 64-bit target, 18446744073709551615, as a text
UsizeMaxText == <<1, 8, 4, 4, 6, 7, 4, 4, 0, 7, 3, 7, 0, 9, 5, 5, 1, 6, 1, 5>>
\* u32::MAX, 4294967295, as a text
U32MaxText == <<4, 2, 9, 4, 9, 6, 7, 2, 9, 5>>

\* str::parse::<usize>: Ok(n) carries the number itself
parse_usize(text) ==
    IF text = <<>> THEN Err("ParseIntError", "cannot parse integer from empty string")
    ELSE IF Exceeds(text, UsizeMaxText)
    THEN Err("ParseIntError", "number too large to fit in target type")
    ELSE Ok(ParseNat(text))

RECURSIVE TextOf(_)
TextOf(text) ==
    IF text = <<>> THEN "" ELSE DigitChar[Head(text) + 1] \o TextOf(Tail(text))

RECURSIVE NatToString(_)
NatToString(n) ==
    IF n < 10 THEN DigitChar[n + 1]
    ELSE NatToString(n \div 10) \o DigitChar[(n % 10) + 1]

RECURSIVE Display(_)
RECURSIVE DisplayAll(_)
Display(v) ==
    CASE v.t = "Integer" -> NatToString(v.n) \o v.ty
      [] v.t = "FieldElement" -> NatToString(v.n)
      [] v.t = "GroupElement" -> NatToString(v.n) \o "group"
      [] v.t = "Boolean" -> IF v.b THEN "true" ELSE "false"
      [] v.t = "Array" -> "[" \o DisplayAll(v.elems) \o "]"
      [] v.t = "Mutable" -> "mut " \o Display(v.val)
      [] v.t = "Unresolved" -> "unresolved " \o TextOf(v.text)
      [] OTHER -> v.t
DisplayAll(vs) ==
    IF vs = <<>> THEN ""
    ELSE IF Len(vs) = 1 THEN Display(vs[1])
    ELSE Display(vs[1]) \o ", " \o DisplayAll(Tail(vs))

(***************************************************************************)
(* Types and the literal parser (from_type, from_other).                   *)
(***************************************************************************)
IntegerT(ty) == [k |-> "IntegerType", ty |-> ty, of |-> <<>>, dims |-> <<>>]
FieldT == [k |-> "FieldElement", ty |-> "", of |-> <<>>, dims |-> <<>>]
GroupT == [k |-> "GroupElement", ty |-> "", of |-> <<>>, dims |-> <<>>]
BooleanT == [k |-> "Boolean", ty |-> "", of |-> <<>>, dims |-> <<>>]
\* Type::Array(element type, dimensions); of is <<element type>>
ArrayT(elt, dims) == [k |-> "Array", ty |-> "", of |-> <<elt>>, dims |-> dims]
CircuitT(name) == [k |-> "Circuit", ty |-> name, of |-> <<>>, dims |-> <<>>]

\* the values of an integer type: u32 values of the model stay below 2^31
Fits(ty, n) == n >= 0 /\ (ty = "u8" => n <= MaxU8)

from_type(text, type) ==
    \* the empty text is not a number of any type
    CASE text = <<>> -> Err("ValueError", TextOf(text))
      [] text # <<>> /\ type.k = "IntegerType" ->
            IF ~Exceeds(text, U32MaxText) /\ Fits(type.ty, ParseNat(text))
            THEN Ok(IntegerV(type.ty, ParseNat(text)))
            ELSE Err("ValueError", TextOf(text))
      [] text # <<>> /\ type.k = "FieldElement" -> Ok(FieldV(ParseMod(text, FieldModulus)))
      [] text # <<>> /\ type.k = "GroupElement" -> Ok(GroupV(ParseMod(text, GroupOrder)))
      \* a digit string is not "true" or "false"
      [] type.k = "Boolean" -> Err("ValueError", TextOf(text))
      \* no other type has a numeric parse: the parse failure is an error
      [] OTHER -> Err("ValueError", TextOf(text))

IsPrimitive(v) == v.t \in {"Boolean", "Integer", "FieldElement", "GroupElement"}

to_type(v) ==
    CASE v.t = "Integer" -> IntegerT(v.ty)
      [] v.t = "FieldElement" -> FieldT
      [] v.t = "GroupElement" -> GroupT
      [] v.t = "Boolean" -> BooleanT

from_other(text, other) ==
    IF IsPrimitive(other) THEN from_type(text, to_type(other))
    ELSE Err("IncompatibleTypes", TextOf(text))

(***************************************************************************)
(* The gadget library: each primitive records its invocation in the log;   *)
(* those that take the constraint system emit one constraint group.        *)
(***************************************************************************)
\* integer results are computed exactly below this value
Huge == 2 ^ 30

\* a * b, or Huge when the product reaches it
MulSat(a, b) == IF a # 0 /\ b >= (Huge + a - 1) \div a THEN Huge ELSE a * b

RECURSIVE PowSat(_, _)
PowSat(a, b) ==
    IF b = 0 THEN 1
    ELSE LET h == PowSat(a, b \div 2)
         IN IF b % 2 = 0 THEN MulSat(h, h) ELSE MulSat(MulSat(h, h), a)

RECURSIVE PowMod(_, _, _)
PowMod(a, b, q) ==
    IF b = 0 THEN 1 % q
    ELSE LET h == PowMod(a, b \div 2, q)
         IN IF b % 2 = 0 THEN (h * h) % q ELSE (((h * h) % q) * a) % q

IntegerGadget(m, name, a, b, n) ==
    IF a.ty = b.ty /\ Fits(a.ty, n)
    THEN Out(Ok(IntegerV(a.ty, n)),
             Emit(Logged(m, name), [g |-> name, a |-> a, b |-> b]))
    ELSE Out(Err("IntegerError", name), Logged(m, name))

enforce_integer_add(m, a, b) == IntegerGadget(m, "integer_add", a, b, a.n + b.n)
enforce_integer_sub(m, a, b) == IntegerGadget(m, "integer_sub", a, b, a.n - b.n)
enforce_integer_mul(m, a, b) == IntegerGadget(m, "integer_mul", a, b, a.n * b.n)
enforce_integer_div(m, a, b) ==
    IntegerGadget(m, "integer_div", a, b, IF b.n = 0 THEN -1 ELSE a.n \div b.n)
enforce_integer_pow(m, a, b) ==
    IntegerGadget(m, "integer_pow", a, b, PowSat(a.n, b.n))

FieldGadget(m, name, a, b, n) ==
    Out(Ok(FieldV(n)), Emit(Logged(m, name), [g |-> name, a |-> a, b |-> b]))

enforce_field_add(m, a, b) ==
    FieldGadget(m, "field_add", a, b, (a.n + b.n) % FieldModulus)
enforce_field_sub(m, a, b) ==
    FieldGadget(m, "field_sub", a, b, (a.n - b.n) % FieldModulus)
enforce_field_mul(m, a, b) ==
    FieldGadget(m, "field_mul", a, b, (a.n * b.n) % FieldModulus)
enforce_field_div(m, a, b) ==
    LET inverses == {c \in 0..(FieldModulus - 1) : (c * b.n) % FieldModulus = 1}
    IN IF inverses = {}
       THEN Out(Err("FieldElementError", "field_div"), Logged(m, "field_div"))
       ELSE FieldGadget(m, "field_div", a, b,
                        (a.n * (CHOOSE c \in inverses : TRUE)) % FieldModulus)
enforce_field_pow(m, a, b) ==
    FieldGadget(m, "field_pow", a, b, PowMod(a.n, b.n, FieldModulus))

evaluate_group_add(m, a, b) ==
    Out(Ok(GroupV((a.n + b.n) % GroupOrder)), Logged(m, "group_add"))
evaluate_group_sub(m, a, b) ==
    Out(Ok(GroupV((a.n - b.n) % GroupOrder)), Logged(m, "group_sub"))

boolean_eq(m, a, b) == Out(Ok(BooleanV(a.b = b.b)), Logged(m, "boolean_eq"))
evaluate_integer_eq(m, a, b) ==
    IF a.ty = b.ty
    THEN Out(Ok(BooleanV(a.n = b.n)), Logged(m, "integer_eq"))
    ELSE Out(Err("IntegerError", "integer_eq"), Logged(m, "integer_eq"))
evaluate_group_eq(m, a, b) == Out(Ok(BooleanV(a.n = b.n)), Logged(m, "group_eq"))

\* Boolean::conditionally_select and Integer::conditionally_select
boolean_conditionally_select(m, c, a, b) ==
    Out(Ok(BooleanV(IF c.b THEN a.b ELSE b.b)),
        Emit(Logged(m, "boolean_select"), [g |-> "boolean_select", a |-> a, b |-> b]))
\* the select over integers is supported for every pair of integer branches
integer_conditionally_select(m, c, a, b) ==
    Out(Ok(IF c.b THEN a ELSE b),
        Emit(Logged(m, "integer_select"), [g |-> "integer_select", a |-> a, b |-> b]))

GadgetNames ==
    {"integer_add", "integer_sub", "integer_mul", "integer_div", "integer_pow",
     "field_add", "field_sub", "field_mul", "field_div", "field_pow",
     "group_add", "group_sub", "boolean_eq", "integer_eq", "group_eq",
     "boolean_select", "integer_select"}

\* the ?-conversion of a failed from_other at an operator site
Coerce(m, text, other) == Out(from_other(text, other), Logged(m, "from_other"))

(***************************************************************************)
(* The binary operators: a dispatch on the variant pair of the operands,   *)
(* arm by arm in the order of the match.                                   *)
(***************************************************************************)
\* enforce_add_expression with the left literal coerced before the right operand is unwrapped
RECURSIVE enforce_add_expression_literal_first(_, _, _)
enforce_add_expression_literal_first(m, left, right) ==
    IF left.t = "Integer" /\ right.t = "Integer"
    THEN enforce_integer_add(m, left, right)
    ELSE IF left.t = "FieldElement" /\ right.t = "FieldElement"
    THEN enforce_field_add(m, left, right)
    ELSE IF left.t = "GroupElement" /\ right.t = "GroupElement"
    THEN evaluate_group_add(m, left, right)
    ELSE IF left.t = "Mutable" THEN enforce_add_expression_literal_first(Recursed(m), left.val, right)
    ELSE IF left.t = "Unresolved"
    THEN LET val_1 == Coerce(m, left.text, right)
         IN IF val_1.res.ok THEN enforce_add_expression_literal_first(Recursed(val_1.m), val_1.res.val, right) ELSE val_1
    ELSE IF right.t = "Mutable" THEN enforce_add_expression_literal_first(Recursed(m), left, right.val)
    ELSE IF right.t = "Unresolved"
    THEN LET val_2 == Coerce(m, right.text, left)
         IN IF val_2.res.ok THEN enforce_add_expression_literal_first(Recursed(val_2.m), left, val_2.res.val) ELSE val_2
    ELSE Out(Err("IncompatibleTypes",
             Display(left) \o " + " \o Display(right)), m)

RECURSIVE enforce_add_expression(_, _, _)
enforce_add_expression(m, left, right) ==
    IF left.t = "Integer" /\ right.t = "Integer"
    THEN enforce_integer_add(m, left, right)
    ELSE IF left.t = "FieldElement" /\ right.t = "FieldElement"
    THEN enforce_field_add(m, left, right)
    ELSE IF left.t = "GroupElement" /\ right.t = "GroupElement"
    THEN evaluate_group_add(m, left, right)
    ELSE IF left.t = "Mutable" THEN enforce_add_expression(Recursed(m), left.val, right)
    ELSE IF right.t = "Mutable" THEN enforce_add_expression(Recursed(m), left, right.val)
    ELSE IF left.t = "Unresolved"
    THEN LET val_1 == Coerce(m, left.text, right)
         IN IF val_1.res.ok THEN enforce_add_expression(Recursed(val_1.m), val_1.res.val, right) ELSE val_1
    ELSE IF right.t = "Unresolved"
    THEN LET val_2 == Coerce(m, right.text, left)
         IN IF val_2.res.ok THEN enforce_add_expression(Recursed(val_2.m), left, val_2.res.val) ELSE val_2
    ELSE Out(Err("IncompatibleTypes",
             Display(left) \o " + " \o Display(right)), m)

\* enforce_sub_expression with the right literal always read as a u32
RECURSIVE enforce_sub_expression_u32_literal(_, _, _)
enforce_sub_expression_u32_literal(m, left, right) ==
    IF left.t = "Integer" /\ right.t = "Integer"
    THEN enforce_integer_sub(m, left, right)
    ELSE IF left.t = "FieldElement" /\ right.t = "FieldElement"
    THEN enforce_field_sub(m, left, right)
    ELSE IF left.t = "GroupElement" /\ right.t = "GroupElement"
    THEN evaluate_group_sub(m, left, right)
    ELSE IF left.t = "Mutable" THEN enforce_sub_expression_u32_literal(Recursed(m), left.val, right)
    ELSE IF right.t = "Mutable" THEN enforce_sub_expression_u32_literal(Recursed(m), left, right.val)
    ELSE IF left.t = "Unresolved"
    THEN LET val_1 == Coerce(m, left.text, right)
         IN IF val_1.res.ok THEN enforce_sub_expression_u32_literal(Recursed(val_1.m), val_1.res.val, right) ELSE val_1
    ELSE IF right.t = "Unresolved"
    THEN LET val_2 == Coerce(m, right.text, IntegerV("u32", 0))
         IN IF val_2.res.ok THEN enforce_sub_expression_u32_literal(Recursed(val_2.m), left, val_2.res.val) ELSE val_2
    ELSE Out(Err("IncompatibleTypes",
             Display(left) \o " - " \o Display(right)), m)

RECURSIVE enforce_sub_expression(_, _, _)
enforce_sub_expression(m, left, right) ==
    IF left.t = "Integer" /\ right.t = "Integer"
    THEN enforce_integer_sub(m, left, right)
    ELSE IF left.t = "FieldElement" /\ right.t = "FieldElement"
    THEN enforce_field_sub(m, left, right)
    ELSE IF left.t = "GroupElement" /\ right.t = "GroupElement"
    THEN evaluate_group_sub(m, left, right)
    ELSE IF left.t = "Mutable" THEN enforce_sub_expression(Recursed(m), left.val, right)
    ELSE IF right.t = "Mutable" THEN enforce_sub_expression(Recursed(m), left, right.val)
    ELSE IF left.t = "Unresolved"
    THEN LET val_1 == Coerce(m, left.text, right)
         IN IF val_1.res.ok THEN enforce_sub_expression(Recursed(val_1.m), val_1.res.val, right) ELSE val_1
    ELSE IF right.t = "Unresolved"
    THEN LET val_2 == Coerce(m, right.text, left)
         IN IF val_2.res.ok THEN enforce_sub_expression(Recursed(val_2.m), left, val_2.res.val) ELSE val_2
    ELSE Out(Err("IncompatibleTypes",
             Display(left) \o " - " \o Display(right)), m)

\* enforce_mul_expression without the arm for a literal on the right
RECURSIVE enforce_mul_expression_no_right_literal(_, _, _)
enforce_mul_expression_no_right_literal(m, left, right) ==
    IF left.t = "Integer" /\ right.t = "Integer"
    THEN enforce_integer_mul(m, left, right)
    ELSE IF left.t = "FieldElement" /\ right.t = "FieldElement"
    THEN enforce_field_mul(m, left, right)
    ELSE IF left.t = "Mutable" THEN enforce_mul_expression_no_right_literal(Recursed(m), left.val, right)
    ELSE IF right.t = "Mutable" THEN enforce_mul_expression_no_right_literal(Recursed(m), left, right.val)
    ELSE IF left.t = "Unresolved"
    THEN LET val_1 == Coerce(m, left.text, right)
         IN IF val_1.res.ok THEN enforce_mul_expression_no_right_literal(Recursed(val_1.m), val_1.res.val, right) ELSE val_1
    ELSE Out(Err("IncompatibleTypes",
             Display(left) \o " * " \o Display(right)), m)

\* enforce_mul_expression with the group-scalar arm enabled
RECURSIVE enforce_mul_expression_group_scalar(_, _, _)
enforce_mul_expression_group_scalar(m, left, right) ==
    IF left.t = "Integer" /\ right.t = "Integer"
    THEN enforce_integer_mul(m, left, right)
    ELSE IF left.t = "FieldElement" /\ right.t = "FieldElement"
    THEN enforce_field_mul(m, left, right)
    ELSE IF left.t = "GroupElement" /\ right.t = "FieldElement"
    THEN Out(Ok(GroupV((left.n * right.n) % GroupOrder)), Logged(m, "group_mul"))
    ELSE IF left.t = "Mutable" THEN enforce_mul_expression_group_scalar(Recursed(m), left.val, right)
    ELSE IF right.t = "Mutable" THEN enforce_mul_expression_group_scalar(Recursed(m), left, right.val)
    ELSE IF left.t = "Unresolved"
    THEN LET val_1 == Coerce(m, left.text, right)
         IN IF val_1.res.ok THEN enforce_mul_expression_group_scalar(Recursed(val_1.m), val_1.res.val, right) ELSE val_1
    ELSE IF right.t = "Unresolved"
    THEN LET val_2 == Coerce(m, right.text, left)
         IN IF val_2.res.ok THEN enforce_mul_expression_group_scalar(Recursed(val_2.m), left, val_2.res.val) ELSE val_2
    ELSE Out(Err("IncompatibleTypes",
             Display(left) \o " * " \o Display(right)), m)

RECURSIVE enforce_mul_expression(_, _, _)
enforce_mul_expression(m, left, right) ==
    IF left.t = "Integer" /\ right.t = "Integer"
    THEN enforce_integer_mul(m, left, right)
    ELSE IF left.t = "FieldElement" /\ right.t = "FieldElement"
    THEN enforce_field_mul(m, left, right)
    ELSE IF left.t = "Mutable" THEN enforce_mul_expression(Recursed(m), left.val, right)
    ELSE IF right.t = "Mutable" THEN enforce_mul_expression(Recursed(m), left, right.val)
    ELSE IF left.t = "Unresolved"
    THEN LET val_1 == Coerce(m, left.text, right)
         IN IF val_1.res.ok THEN enforce_mul_expression(Recursed(val_1.m), val_1.res.val, right) ELSE val_1
    ELSE IF right.t = "Unresolved"
    THEN LET val_2 == Coerce(m, right.text, left)
         IN IF val_2.res.ok THEN enforce_mul_expression(Recursed(val_2.m), left, val_2.res.val) ELSE val_2
    ELSE Out(Err("IncompatibleTypes",
             Display(left) \o " * " \o Display(right)), m)

\* enforce_div_expression moving the wrapper of the left operand onto the right operand
RECURSIVE enforce_div_expression_rewrap(_, _, _)
enforce_div_expression_rewrap(m, left, right) ==
    IF left.t = "Integer" /\ right.t = "Integer"
    THEN enforce_integer_div(m, left, right)
    ELSE IF left.t = "FieldElement" /\ right.t = "FieldElement"
    THEN enforce_field_div(m, left, right)
    ELSE IF left.t = "Mutable"
    THEN enforce_div_expression_rewrap(Recursed(m), left.val, MutableV(right))
    ELSE IF right.t = "Mutable" THEN enforce_div_expression_rewrap(Recursed(m), left, right.val)
    ELSE IF left.t = "Unresolved"
    THEN LET val_1 == Coerce(m, left.text, right)
         IN IF val_1.res.ok THEN enforce_div_expression_rewrap(Recursed(val_1.m), val_1.res.val, right) ELSE val_1
    ELSE IF right.t = "Unresolved"
    THEN LET val_2 == Coerce(m, right.text, left)
         IN IF val_2.res.ok THEN enforce_div_expression_rewrap(Recursed(val_2.m), left, val_2.res.val) ELSE val_2
    ELSE Out(Err("IncompatibleTypes",
             Display(left) \o " / " \o Display(right)), m)

RECURSIVE enforce_div_expression(_, _, _)
enforce_div_expression(m, left, right) ==
    IF left.t = "Integer" /\ right.t = "Integer"
    THEN enforce_integer_div(m, left, right)
    ELSE IF left.t = "FieldElement" /\ right.t = "FieldElement"
    THEN enforce_field_div(m, left, right)
    ELSE IF left.t = "Mutable" THEN enforce_div_expression(Recursed(m), left.val, right)
    ELSE IF right.t = "Mutable" THEN enforce_div_expression(Recursed(m), left, right.val)
    ELSE IF left.t = "Unresolved"
    THEN LET val_1 == Coerce(m, left.text, right)
         IN IF val_1.res.ok THEN enforce_div_expression(Recursed(val_1.m), val_1.res.val, right) ELSE val_1
    ELSE IF right.t = "Unresolved"
    THEN LET val_2 == Coerce(m, right.text, left)
         IN IF val_2.res.ok THEN enforce_div_expression(Recursed(val_2.m), left, val_2.res.val) ELSE val_2
    ELSE Out(Err("IncompatibleTypes",
             Display(left) \o " / " \o Display(right)), m)

\* enforce_pow_expression accepting a field exponent for a field base
RECURSIVE enforce_pow_expression_field_exponent(_, _, _)
enforce_pow_expression_field_exponent(m, left, right) ==
    IF left.t = "Integer" /\ right.t = "Integer"
    THEN enforce_integer_pow(m, left, right)
    ELSE IF left.t = "FieldElement" /\ right.t = "Integer"
    THEN enforce_field_pow(m, left, right)
    ELSE IF left.t = "FieldElement" /\ right.t = "FieldElement"
    THEN enforce_field_pow(m, left, right)
    ELSE IF left.t = "Mutable" THEN enforce_pow_expression_field_exponent(Recursed(m), left.val, right)
    ELSE IF right.t = "Mutable" THEN enforce_pow_expression_field_exponent(Recursed(m), left, right.val)
    ELSE IF left.t = "Unresolved"
    THEN LET val_1 == Coerce(m, left.text, right)
         IN IF val_1.res.ok THEN enforce_pow_expression_field_exponent(Recursed(val_1.m), val_1.res.val, right) ELSE val_1
    ELSE IF right.t = "Unresolved"
    THEN LET val_2 == Coerce(m, right.text, left)
         IN IF val_2.res.ok THEN enforce_pow_expression_field_exponent(Recursed(val_2.m), left, val_2.res.val) ELSE val_2
    ELSE IF right.t = "FieldElement"
    THEN Out(Err("InvalidExponent", Display(right)), m)
    ELSE Out(Err("IncompatibleTypes",
             Display(left) \o " * " \o Display(right)), m)

RECURSIVE enforce_pow_expression(_, _, _)
enforce_pow_expression(m, left, right) ==
    IF left.t = "Integer" /\ right.t = "Integer"
    THEN enforce_integer_pow(m, left, right)
    ELSE IF left.t = "FieldElement" /\ right.t = "Integer"
    THEN enforce_field_pow(m, left, right)
    ELSE IF left.t = "Mutable" THEN enforce_pow_expression(Recursed(m), left.val, right)
    ELSE IF right.t = "Mutable" THEN enforce_pow_expression(Recursed(m), left, right.val)
    ELSE IF left.t = "Unresolved"
    THEN LET val_1 == Coerce(m, left.text, right)
         IN IF val_1.res.ok THEN enforce_pow_expression(Recursed(val_1.m), val_1.res.val, right) ELSE val_1
    ELSE IF right.t = "Unresolved"
    THEN LET val_2 == Coerce(m, right.text, left)
         IN IF val_2.res.ok THEN enforce_pow_expression(Recursed(val_2.m), left, val_2.res.val) ELSE val_2
    ELSE IF right.t = "FieldElement"
    THEN Out(Err("InvalidExponent", Display(right)), m)
    ELSE Out(Err("IncompatibleTypes",
             Display(left) \o " * " \o Display(right)), m)

\* evaluate_eq_expression with the field-field arm enabled
RECURSIVE evaluate_eq_expression_field(_, _, _)
evaluate_eq_expression_field(m, left, right) ==
    IF left.t = "Boolean" /\ right.t = "Boolean"
    THEN boolean_eq(m, left, right)
    ELSE IF left.t = "Integer" /\ right.t = "Integer"
    THEN evaluate_integer_eq(m, left, right)
    ELSE IF left.t = "GroupElement" /\ right.t = "GroupElement"
    THEN evaluate_group_eq(m, left, right)
    ELSE IF left.t = "FieldElement" /\ right.t = "FieldElement"
    THEN Out(Ok(BooleanV(left.n = right.n)), Logged(m, "field_eq"))
    ELSE IF left.t = "Mutable" THEN evaluate_eq_expression_field(Recursed(m), left.val, right)
    ELSE IF right.t = "Mutable" THEN evaluate_eq_expression_field(Recursed(m), left, right.val)
    ELSE IF left.t = "Unresolved"
    THEN LET val_1 == Coerce(m, left.text, right)
         IN IF val_1.res.ok THEN evaluate_eq_expression_field(Recursed(val_1.m), val_1.res.val, right) ELSE val_1
    ELSE IF right.t = "Unresolved"
    THEN LET val_2 == Coerce(m, right.text, left)
         IN IF val_2.res.ok THEN evaluate_eq_expression_field(Recursed(val_2.m), left, val_2.res.val) ELSE val_2
    ELSE Out(Err("IncompatibleTypes",
             Display(left) \o " == " \o Display(right)), m)

RECURSIVE evaluate_eq_expression(_, _, _)
evaluate_eq_expression(m, left, right) ==
    IF left.t = "Boolean" /\ right.t = "Boolean"
    THEN boolean_eq(m, left, right)
    ELSE IF left.t = "Integer" /\ right.t = "Integer"
    THEN evaluate_integer_eq(m, left, right)
    ELSE IF left.t = "GroupElement" /\ right.t = "GroupElement"
    THEN evaluate_group_eq(m, left, right)
    ELSE IF left.t = "Mutable" THEN evaluate_eq_expression(Recursed(m), left.val, right)
    ELSE IF right.t = "Mutable" THEN evaluate_eq_expression(Recursed(m), left, right.val)
    ELSE IF left.t = "Unresolved"
    THEN LET val_1 == Coerce(m, left.text, right)
         IN IF val_1.res.ok THEN evaluate_eq_expression(Recursed(val_1.m), val_1.res.val, right) ELSE val_1
    ELSE IF right.t = "Unresolved"
    THEN LET val_2 == Coerce(m, right.text, left)
         IN IF val_2.res.ok THEN evaluate_eq_expression(Recursed(val_2.m), left, val_2.res.val) ELSE val_2
    ELSE Out(Err("IncompatibleTypes",
             Display(left) \o " == " \o Display(right)), m)

RECURSIVE evaluate_geq_expression(_, _, _)
evaluate_geq_expression(m, left, right) ==
    IF left.t = "Mutable" THEN evaluate_geq_expression(Recursed(m), left.val, right)
    ELSE IF right.t = "Mutable" THEN evaluate_geq_expression(Recursed(m), left, right.val)
    ELSE IF left.t = "Unresolved"
    THEN LET val_1 == Coerce(m, left.text, right)
         IN IF val_1.res.ok THEN evaluate_geq_expression(Recursed(val_1.m), val_1.res.val, right) ELSE val_1
    ELSE IF right.t = "Unresolved"
    THEN LET val_2 == Coerce(m, right.text, left)
         IN IF val_2.res.ok THEN evaluate_geq_expression(Recursed(val_2.m), left, val_2.res.val) ELSE val_2
    ELSE Out(Err("IncompatibleTypes",
             Display(left) \o " >= " \o Display(right)
                 \o ", values must be fields"), m)

RECURSIVE evaluate_gt_expression(_, _, _)
evaluate_gt_expression(m, left, right) ==
    IF left.t = "Mutable" THEN evaluate_gt_expression(Recursed(m), left.val, right)
    ELSE IF right.t = "Mutable" THEN evaluate_gt_expression(Recursed(m), left, right.val)
    ELSE IF left.t = "Unresolved"
    THEN LET val_1 == Coerce(m, left.text, right)
         IN IF val_1.res.ok THEN evaluate_gt_expression(Recursed(val_1.m), val_1.res.val, right) ELSE val_1
    ELSE IF right.t = "Unresolved"
    THEN LET val_2 == Coerce(m, right.text, left)
         IN IF val_2.res.ok THEN evaluate_gt_expression(Recursed(val_2.m), left, val_2.res.val) ELSE val_2
    ELSE Out(Err("IncompatibleTypes",
             Display(left) \o " > " \o Display(right)
                 \o ", values must be fields"), m)

RECURSIVE evaluate_leq_expression(_, _, _)
evaluate_leq_expression(m, left, right) ==
    IF left.t = "Mutable" THEN evaluate_leq_expression(Recursed(m), left.val, right)
    ELSE IF right.t = "Mutable" THEN evaluate_leq_expression(Recursed(m), left, right.val)
    ELSE IF left.t = "Unresolved"
    THEN LET val_1 == Coerce(m, left.text, right)
         IN IF val_1.res.ok THEN evaluate_leq_expression(Recursed(val_1.m), val_1.res.val, right) ELSE val_1
    ELSE IF right.t = "Unresolved"
    THEN LET val_2 == Coerce(m, right.text, left)
         IN IF val_2.res.ok THEN evaluate_leq_expression(Recursed(val_2.m), left, val_2.res.val) ELSE val_2
    ELSE Out(Err("IncompatibleTypes",
             Display(left) \o " <= " \o Display(right)
                 \o ", values must be fields"), m)

\* evaluate_lt_expression with the field-field arm enabled
RECURSIVE evaluate_lt_expression_field(_, _, _)
evaluate_lt_expression_field(m, left, right) ==
    IF left.t = "FieldElement" /\ right.t = "FieldElement"
    THEN Out(Ok(BooleanV(left.n < right.n)), Logged(m, "field_lt"))
    ELSE IF left.t = "Mutable" THEN evaluate_lt_expression_field(Recursed(m), left.val, right)
    ELSE IF right.t = "Mutable" THEN evaluate_lt_expression_field(Recursed(m), left, right.val)
    ELSE IF left.t = "Unresolved"
    THEN LET val_1 == Coerce(m, left.text, right)
         IN IF val_1.res.ok THEN evaluate_lt_expression_field(Recursed(val_1.m), val_1.res.val, right) ELSE val_1
    ELSE IF right.t = "Unresolved"
    THEN LET val_2 == Coerce(m, right.text, left)
         IN IF val_2.res.ok THEN evaluate_lt_expression_field(Recursed(val_2.m), left, val_2.res.val) ELSE val_2
    ELSE Out(Err("IncompatibleTypes",
             Display(left) \o " < " \o Display(right)
                 \o ", values must be fields"), m)

RECURSIVE evaluate_lt_expression(_, _, _)
evaluate_lt_expression(m, left, right) ==
    IF left.t = "Mutable" THEN evaluate_lt_expression(Recursed(m), left.val, right)
    ELSE IF right.t = "Mutable" THEN evaluate_lt_expression(Recursed(m), left, right.val)
    ELSE IF left.t = "Unresolved"
    THEN LET val_1 == Coerce(m, left.text, right)
         IN IF val_1.res.ok THEN evaluate_lt_expression(Recursed(val_1.m), val_1.res.val, right) ELSE val_1
    ELSE IF right.t = "Unresolved"
    THEN LET val_2 == Coerce(m, right.text, left)
         IN IF val_2.res.ok THEN evaluate_lt_expression(Recursed(val_2.m), left, val_2.res.val) ELSE val_2
    ELSE Out(Err("IncompatibleTypes",
             Display(left) \o " < " \o Display(right)
                 \o ", values must be fields"), m)

(***************************************************************************)
(* Scope store and scope keys.                                             *)
(***************************************************************************)
new_scope(outer, inner) == outer \o "." \o inner
new_scope_from_variable(outer, variable) == new_scope(outer, variable)

Bound(m, key) == key \in DOMAIN m.store
get(m, key) == m.store[key]

\* ConstrainedProgram::store
store_value(m, name, value) ==
    [m EXCEPT !.store = [key \in DOMAIN @ \cup {name} |->
                            IF key = name THEN value ELSE @[key]]]

\* the least index of a non-empty set of indices
First(indices) == CHOOSE i \in indices : \A j \in indices : i <= j

\* the function invoker: runs the body of the function in the given scopes;
\* the body of a function of the model is the outcome of running it
enforce_function(m, scope, caller_scope, function, arguments) ==
    Out(function.body,
        Dispatched(Logged(m, "invoke " \o scope \o " " \o function.function_name),
                   scope, function))

TypeDisplay(type) ==
    CASE type.k = "IntegerType" -> type.ty
      [] type.k = "FieldElement" -> "field"
      [] type.k = "GroupElement" -> "group"
      [] type.k = "Boolean" -> "bool"
      [] OTHER -> type.k

\* T[d1][d2].. with one dimension peeled: T[d2].., and T for a single dimension
inner_dimension(type, dimensions) ==
    IF Len(dimensions) > 1 THEN ArrayT(type.of[1], Tail(dimensions))
    ELSE type.of[1]

ExprDisplay(expression) ==
    CASE expression.e = "Identifier" -> expression.name
      [] expression.e = "Implicit" -> TextOf(expression.text)
      [] OTHER -> expression.e

(***************************************************************************)
(* Boolean gadgets of the dispatcher (Not, Or, And).                       *)
(***************************************************************************)
evaluate_not(m, v) ==
    IF v.t = "Boolean" THEN Out(Ok(BooleanV(~v.b)), Logged(m, "not"))
    ELSE Out(Err("BooleanError", "!" \o Display(v)), m)
enforce_or(m, a, b) ==
    IF a.t = "Boolean" /\ b.t = "Boolean"
    THEN Out(Ok(BooleanV(a.b \/ b.b)),
             Emit(Logged(m, "or"), [g |-> "or", a |-> a, b |-> b]))
    ELSE Out(Err("BooleanError", Display(a) \o " || " \o Display(b)), m)
enforce_and(m, a, b) ==
    IF a.t = "Boolean" /\ b.t = "Boolean"
    THEN Out(Ok(BooleanV(a.b /\ b.b)),
             Emit(Logged(m, "and"), [g |-> "and", a |-> a, b |-> b]))
    ELSE Out(Err("BooleanError", Display(a) \o " && " \o Display(b)), m)

(***************************************************************************)
(* Numeric literal coercion and identifier evaluation.                     *)
(***************************************************************************)
\* enforce_number_implicit parsing under the first expected type whenever there is one
enforce_number_implicit_first_type(expected_types, value) ==
    IF Len(expected_types) >= 1 THEN from_type(value, expected_types[1])
    ELSE Ok(UnresolvedV(value))

enforce_number_implicit(expected_types, value) ==
    IF Len(expected_types) = 1 THEN from_type(value, expected_types[1])
    ELSE Ok(UnresolvedV(value))

\* evaluate_identifier probing the file scope before the function scope
evaluate_identifier_file_first(m, file_scope, function_scope, expected_types, unresolved_identifier) ==
    LET variable_name == new_scope(function_scope, unresolved_identifier)
        identifier_name == new_scope(file_scope, unresolved_identifier)
    IN IF Bound(m, variable_name) \/ Bound(m, identifier_name)
       THEN LET result_value == IF Bound(m, identifier_name)
                                THEN get(m, identifier_name)
                                ELSE get(m, variable_name)
            IN IF result_value.t = "Unresolved"
               THEN Out(enforce_number_implicit(expected_types, result_value.text), m)
               ELSE Out(Ok(result_value), m)
       ELSE Out(Err("UndefinedIdentifier", unresolved_identifier), m)

evaluate_identifier(m, file_scope, function_scope, expected_types, unresolved_identifier) ==
    LET variable_name == new_scope(function_scope, unresolved_identifier)
        identifier_name == new_scope(file_scope, unresolved_identifier)
    IN IF Bound(m, variable_name) \/ Bound(m, identifier_name)
       THEN LET result_value == IF Bound(m, variable_name)
                                THEN get(m, variable_name)
                                ELSE get(m, identifier_name)
            IN IF result_value.t = "Unresolved"
               THEN Out(enforce_number_implicit(expected_types, result_value.text), m)
               ELSE Out(Ok(result_value), m)
       ELSE Out(Err("UndefinedIdentifier", unresolved_identifier), m)

BinaryOperator(op, m, left, right) ==
    CASE op = "Add" -> enforce_add_expression(m, left, right)
      [] op = "Sub" -> enforce_sub_expression(m, left, right)
      [] op = "Mul" -> enforce_mul_expression(m, left, right)
      [] op = "Div" -> enforce_div_expression(m, left, right)
      [] op = "Pow" -> enforce_pow_expression(m, left, right)
      [] op = "Or" -> enforce_or(m, left, right)
      [] op = "And" -> enforce_and(m, left, right)
      [] op = "Eq" -> evaluate_eq_expression(m, left, right)
      [] op = "Geq" -> evaluate_geq_expression(m, left, right)
      [] op = "Gt" -> evaluate_gt_expression(m, left, right)
      [] op = "Leq" -> evaluate_leq_expression(m, left, right)
      [] op = "Lt" -> evaluate_lt_expression(m, left, right)

BinaryNodes ==
    {"Add", "Sub", "Mul", "Div", "Pow", "Or", "And", "Eq", "Geq", "Gt", "Leq", "Lt"}

(***************************************************************************)
(* The dispatcher and the evaluators that recurse through it.              *)
(***************************************************************************)
RECURSIVE enforce_expression(_, _, _, _, _)
RECURSIVE enforce_conditional_expression(_, _, _, _, _, _, _)
RECURSIVE enforce_array_expression(_, _, _, _, _)
RECURSIVE enforce_array_elements(_, _, _, _, _, _)
RECURSIVE enforce_index(_, _, _, _, _)
RECURSIVE enforce_array_access_expression(_, _, _, _, _, _)
RECURSIVE enforce_circuit_members(_, _, _, _, _, _, _)
RECURSIVE enforce_circuit_expression(_, _, _, _, _)
RECURSIVE enforce_circuit_access_expression(_, _, _, _, _, _)
RECURSIVE enforce_circuit_static_access_expression(_, _, _, _, _, _)
RECURSIVE enforce_function_call_expression(_, _, _, _, _, _)

\* enforce_conditional_expression evaluating the else-branch before the then-branch
enforce_conditional_expression_else_first(m, file_scope, function_scope, expected_types, first, second, third) ==
    LET r1 == enforce_expression(m, file_scope, function_scope, <<BooleanT>>, first)
    IN IF ~r1.res.ok THEN r1
       ELSE IF r1.res.val.t # "Boolean"
       THEN Out(Err("IfElseConditional", Display(r1.res.val)), r1.m)
       ELSE
       LET resolved_first == r1.res.val
           r3 == enforce_expression(r1.m, file_scope, function_scope,
                                    expected_types, third)
       IN IF ~r3.res.ok THEN r3
          ELSE
          LET r2 == enforce_expression(r3.m, file_scope, function_scope,
                                       expected_types, second)
          IN IF ~r2.res.ok THEN r2
             ELSE IF r2.res.val.t = "Boolean" /\ r3.res.val.t = "Boolean"
             THEN boolean_conditionally_select(r2.m, resolved_first,
                                               r2.res.val, r3.res.val)
             ELSE IF r2.res.val.t = "Integer" /\ r3.res.val.t = "Integer"
             THEN integer_conditionally_select(r2.m, resolved_first,
                                               r2.res.val, r3.res.val)
             ELSE Out(Abort("conditional select gadget not implemented between given types"),
                      r2.m)

\* enforce_conditional_expression evaluating only the branch the condition selects
enforce_conditional_expression_lazy(m, file_scope, function_scope, expected_types, first, second, third) ==
    LET r1 == enforce_expression(m, file_scope, function_scope, <<BooleanT>>, first)
    IN IF ~r1.res.ok THEN r1
       ELSE IF r1.res.val.t # "Boolean"
       THEN Out(Err("IfElseConditional", Display(r1.res.val)), r1.m)
       ELSE enforce_expression(r1.m, file_scope, function_scope, expected_types,
                               IF r1.res.val.b THEN second ELSE third)

enforce_conditional_expression(m, file_scope, function_scope, expected_types, first, second, third) ==
    LET r1 == enforce_expression(m, file_scope, function_scope, <<BooleanT>>, first)
    IN IF ~r1.res.ok THEN r1
       ELSE IF r1.res.val.t # "Boolean"
       THEN Out(Err("IfElseConditional", Display(r1.res.val)), r1.m)
       ELSE
       LET resolved_first == r1.res.val
           r2 == enforce_expression(r1.m, file_scope, function_scope,
                                    expected_types, second)
       IN IF ~r2.res.ok THEN r2
          ELSE
          LET r3 == enforce_expression(r2.m, file_scope, function_scope,
                                       expected_types, third)
          IN IF ~r3.res.ok THEN r3
             ELSE IF r2.res.val.t = "Boolean" /\ r3.res.val.t = "Boolean"
             THEN boolean_conditionally_select(r3.m, resolved_first,
                                               r2.res.val, r3.res.val)
             ELSE IF r2.res.val.t = "Integer" /\ r3.res.val.t = "Integer"
             THEN integer_conditionally_select(r3.m, resolved_first,
                                               r2.res.val, r3.res.val)
             ELSE Out(Abort("conditional select gadget not implemented between given types"),
                      r3.m)

\* the loop over the elements with a spread array placed before the elements built so far
enforce_array_elements_spread_first(m, file_scope, function_scope, expected_types, array, result) ==
    IF array = <<>> THEN Out(Ok(result), m)
    ELSE
    LET element == Head(array)
    IN IF element.s = "Spread"
       THEN IF element.x.e = "Identifier"
            THEN LET array_name == new_scope_from_variable(function_scope, element.x.name)
                 IN IF Bound(m, array_name)
                    THEN IF get(m, array_name).t = "Array"
                         THEN enforce_array_elements(m, file_scope, function_scope,
                                  expected_types, Tail(array),
                                  get(m, array_name).elems \o result)
                         ELSE Out(Err("InvalidSpread", Display(get(m, array_name))), m)
                    ELSE Out(Err("UndefinedArray", element.x.name), m)
            ELSE Out(Err("InvalidSpread", ExprDisplay(element.x)), m)
       ELSE LET r == enforce_expression(m, file_scope, function_scope,
                                        expected_types, element.x)
            IN IF ~r.res.ok THEN r
               ELSE enforce_array_elements(r.m, file_scope, function_scope,
                        expected_types, Tail(array), Append(result, r.res.val))

\* the loop over the elements of the literal: result is the vector built so far
enforce_array_elements(m, file_scope, function_scope, expected_types, array, result) ==
    IF array = <<>> THEN Out(Ok(result), m)
    ELSE
    LET element == Head(array)
    IN IF element.s = "Spread"
       THEN IF element.x.e = "Identifier"
            THEN LET array_name == new_scope_from_variable(function_scope, element.x.name)
                 IN IF Bound(m, array_name)
                    THEN IF get(m, array_name).t = "Array"
                         THEN enforce_array_elements(m, file_scope, function_scope,
                                  expected_types, Tail(array),
                                  result \o get(m, array_name).elems)
                         ELSE Out(Err("InvalidSpread", Display(get(m, array_name))), m)
                    ELSE Out(Err("UndefinedArray", element.x.name), m)
            ELSE Out(Err("InvalidSpread", ExprDisplay(element.x)), m)
       ELSE LET r == enforce_expression(m, file_scope, function_scope,
                                        expected_types, element.x)
            IN IF ~r.res.ok THEN r
               ELSE enforce_array_elements(r.m, file_scope, function_scope,
                        expected_types, Tail(array), Append(result, r.res.val))

enforce_array_expression(m, file_scope, function_scope, expected_types, array) ==
    LET expected_dimensions == <<>>
    IN IF expected_types # <<>> /\ expected_types[1].k # "Array"
       THEN Out(Err("IncompatibleTypes", TypeDisplay(expected_types[1])), m)
       ELSE
       LET inner_types == IF expected_types # <<>>
                          THEN <<inner_dimension(expected_types[1],
                                                 expected_types[1].dims)>>
                          ELSE expected_types
           r == enforce_array_elements(m, file_scope, function_scope,
                                       inner_types, array, <<>>)
       IN IF ~r.res.ok THEN r
          ELSE IF expected_dimensions # <<>>
                  /\ expected_dimensions[Len(expected_dimensions)] # Len(r.res.val)
          THEN Out(Err("InvalidLength",
                       NatToString(expected_dimensions[Len(expected_dimensions)])
                       \o ", " \o NatToString(Len(r.res.val))), r.m)
          ELSE Out(Ok(ArrayV(r.res.val)), r.m)

\* the index as a natural number: Ok(n) carries the number itself
enforce_index(m, file_scope, function_scope, expected_types, index) ==
    LET r == enforce_expression(m, file_scope, function_scope, expected_types, index)
    IN IF ~r.res.ok THEN r
       ELSE IF r.res.val.t = "Integer" THEN Out(Ok(r.res.val.n), r.m)
       ELSE IF r.res.val.t = "Unresolved" THEN Out(parse_usize(r.res.val.text), r.m)
       ELSE Out(Err("InvalidIndex", Display(r.res.val)), r.m)

\* enforce_array_access_expression with a missing lower endpoint read as 1
enforce_array_access_expression_from_one(m, file_scope, function_scope, expected_types, array, index) ==
    LET r == enforce_expression(m, file_scope, function_scope, expected_types, array)
    IN IF ~r.res.ok THEN r
       ELSE IF r.res.val.t # "Array" /\ ~(r.res.val.t = "Mutable" /\ r.res.val.val.t = "Array")
       THEN Out(Err("InvalidArrayAccess",
                    Display(IF r.res.val.t = "Mutable" THEN r.res.val.val ELSE r.res.val)),
                r.m)
       ELSE
       LET elems == IF r.res.val.t = "Array" THEN r.res.val.elems ELSE r.res.val.val.elems
       IN IF index.r = "Range"
          THEN LET from_resolved == IF index.from # <<>> THEN index.from[1] ELSE 1
                   to_resolved == IF index.to # <<>> THEN index.to[1] ELSE Len(elems)
               IN IF from_resolved <= to_resolved /\ to_resolved <= Len(elems)
                  THEN Out(Ok(ArrayV(SubSeq(elems, from_resolved + 1, to_resolved))), r.m)
                  ELSE Out(Abort("slice index out of range"), r.m)
          ELSE LET index_resolved == enforce_index(r.m, file_scope, function_scope,
                                                   expected_types, index.x)
               IN IF ~index_resolved.res.ok THEN index_resolved
                  ELSE IF index_resolved.res.val < Len(elems)
                  THEN Out(Ok(elems[index_resolved.res.val + 1]), index_resolved.m)
                  ELSE Out(Abort("index out of bounds"), index_resolved.m)

enforce_array_access_expression(m, file_scope, function_scope, expected_types, array, index) ==
    LET r == enforce_expression(m, file_scope, function_scope, expected_types, array)
    IN IF ~r.res.ok THEN r
       ELSE IF r.res.val.t # "Array" /\ ~(r.res.val.t = "Mutable" /\ r.res.val.val.t = "Array")
       THEN Out(Err("InvalidArrayAccess",
                    Display(IF r.res.val.t = "Mutable" THEN r.res.val.val ELSE r.res.val)),
                r.m)
       ELSE
       LET elems == IF r.res.val.t = "Array" THEN r.res.val.elems ELSE r.res.val.val.elems
       IN IF index.r = "Range"
          THEN LET from_resolved == IF index.from # <<>> THEN index.from[1] ELSE 0
                   to_resolved == IF index.to # <<>> THEN index.to[1] ELSE Len(elems)
               \* array[from_resolved..to_resolved] panics on endpoints out of order or range
               IN IF from_resolved <= to_resolved /\ to_resolved <= Len(elems)
                  THEN Out(Ok(ArrayV(SubSeq(elems, from_resolved + 1, to_resolved))), r.m)
                  ELSE Out(Abort("slice index out of range"), r.m)
          ELSE LET index_resolved == enforce_index(r.m, file_scope, function_scope,
                                                   expected_types, index.x)
               IN IF ~index_resolved.res.ok THEN index_resolved
                  \* array[index_resolved] panics on an index out of bounds
                  ELSE IF index_resolved.res.val < Len(elems)
                  THEN Out(Ok(elems[index_resolved.res.val + 1]), index_resolved.m)
                  ELSE Out(Abort("index out of bounds"), index_resolved.m)

\* the loop over the members of the definition taking the last binding of a field
enforce_circuit_members_last_binding(m, file_scope, function_scope, circuit_identifier, definition_members, members, resolved_members) ==
    IF definition_members = <<>>
    THEN Out(Ok(CircuitExpressionV(circuit_identifier, resolved_members)), m)
    ELSE
    LET member == Head(definition_members)
    IN IF member.m = "CircuitField"
       THEN LET matching == {i \in DOMAIN members :
                                members[i].identifier = member.identifier}
            IN IF matching = {}
               THEN Out(Err("ExpectedCircuitValue", member.identifier), m)
               ELSE
               LET field == members[CHOOSE i \in matching : \A j \in matching : j <= i]
                   field_value == enforce_expression(m, file_scope, function_scope,
                                                     <<member.type>>, field.expression)
               IN IF ~field_value.res.ok THEN field_value
                  ELSE enforce_circuit_members(field_value.m, file_scope, function_scope,
                           circuit_identifier, Tail(definition_members), members,
                           Append(resolved_members,
                                  ConstrainedCircuitMember(member.identifier,
                                                           field_value.res.val)))
       ELSE LET function_value == FunctionV(<<circuit_identifier>>, member.function)
                constrained_function_value ==
                    IF member.static THEN StaticV(function_value) ELSE function_value
            IN enforce_circuit_members(m, file_scope, function_scope,
                   circuit_identifier, Tail(definition_members), members,
                   Append(resolved_members,
                          ConstrainedCircuitMember(member.function.function_name,
                                                   constrained_function_value)))

\* the loop over the members of the definition, in declaration order
enforce_circuit_members(m, file_scope, function_scope, circuit_identifier, definition_members, members, resolved_members) ==
    IF definition_members = <<>>
    THEN Out(Ok(CircuitExpressionV(circuit_identifier, resolved_members)), m)
    ELSE
    LET member == Head(definition_members)
    IN IF member.m = "CircuitField"
       THEN LET matching == {i \in DOMAIN members :
                                members[i].identifier = member.identifier}
            IN IF matching = {}
               THEN Out(Err("ExpectedCircuitValue", member.identifier), m)
               ELSE
               LET field == members[First(matching)]
                   field_value == enforce_expression(m, file_scope, function_scope,
                                                     <<member.type>>, field.expression)
               IN IF ~field_value.res.ok THEN field_value
                  ELSE enforce_circuit_members(field_value.m, file_scope, function_scope,
                           circuit_identifier, Tail(definition_members), members,
                           Append(resolved_members,
                                  ConstrainedCircuitMember(member.identifier,
                                                           field_value.res.val)))
       ELSE LET function_value == FunctionV(<<circuit_identifier>>, member.function)
                constrained_function_value ==
                    IF member.static THEN StaticV(function_value) ELSE function_value
            IN enforce_circuit_members(m, file_scope, function_scope,
                   circuit_identifier, Tail(definition_members), members,
                   Append(resolved_members,
                          ConstrainedCircuitMember(member.function.function_name,
                                                   constrained_function_value)))

enforce_circuit_expression(m, file_scope, function_scope, identifier, members) ==
    LET program_identifier == IF identifier = "Self" THEN file_scope
                              ELSE new_scope(file_scope, identifier)
    IN IF Bound(m, program_identifier) /\ get(m, program_identifier).t = "CircuitDefinition"
       THEN LET circuit_definition == get(m, program_identifier)
            IN enforce_circuit_members(m, file_scope, function_scope,
                   circuit_definition.identifier, circuit_definition.members,
                   members, <<>>)
       ELSE Out(Err("UndefinedCircuit", identifier), m)

RECURSIVE store_circuit_fields(_, _, _, _, _)
\* the store loop keyed by the circuit scope, without the name of the accessed member
store_circuit_fields_circuit_scope(m, file_scope, circuit_name, member_name, members) ==
    IF members = <<>> THEN m
    ELSE LET stored_member == Head(members)
         IN IF stored_member.val.t \in {"Function", "Static"}
            THEN store_circuit_fields(m, file_scope, circuit_name, member_name,
                                      Tail(members))
            ELSE LET circuit_scope == new_scope(file_scope, circuit_name)
                     function_scope == new_scope(circuit_scope, member_name)
                     field == new_scope(circuit_scope, stored_member.id)
                 IN store_circuit_fields(store_value(m, field, stored_member.val),
                        file_scope, circuit_name, member_name, Tail(members))

\* the loop storing the members that are neither Function nor Static
store_circuit_fields(m, file_scope, circuit_name, member_name, members) ==
    IF members = <<>> THEN m
    ELSE LET stored_member == Head(members)
         IN IF stored_member.val.t \in {"Function", "Static"}
            THEN store_circuit_fields(m, file_scope, circuit_name, member_name,
                                      Tail(members))
            ELSE LET circuit_scope == new_scope(file_scope, circuit_name)
                     function_scope == new_scope(circuit_scope, member_name)
                     field == new_scope(function_scope, stored_member.id)
                 IN store_circuit_fields(store_value(m, field, stored_member.val),
                        file_scope, circuit_name, member_name, Tail(members))

\* enforce_circuit_access_expression returning the member without storing the fields
enforce_circuit_access_expression_no_fields(m, file_scope, function_scope, expected_types, circuit_identifier, circuit_member) ==
    LET r == enforce_expression(m, file_scope, function_scope, expected_types,
                                circuit_identifier)
    IN IF ~r.res.ok THEN r
       ELSE IF r.res.val.t # "CircuitExpression"
               /\ ~(r.res.val.t = "Mutable" /\ r.res.val.val.t = "CircuitExpression")
       THEN Out(Err("InvalidCircuitAccess",
                    Display(IF r.res.val.t = "Mutable" THEN r.res.val.val ELSE r.res.val)),
                r.m)
       ELSE
       LET circuit == IF r.res.val.t = "Mutable" THEN r.res.val.val ELSE r.res.val
           members == circuit.members
           matching == {i \in DOMAIN members : members[i].id = circuit_member}
       IN IF matching = {}
          THEN Out(Err("UndefinedCircuitObject", circuit_member), r.m)
          ELSE Out(Ok(members[First(matching)].val), r.m)

enforce_circuit_access_expression(m, file_scope, function_scope, expected_types, circuit_identifier, circuit_member) ==
    LET r == enforce_expression(m, file_scope, function_scope, expected_types,
                                circuit_identifier)
    IN IF ~r.res.ok THEN r
       ELSE IF r.res.val.t # "CircuitExpression"
               /\ ~(r.res.val.t = "Mutable" /\ r.res.val.val.t = "CircuitExpression")
       THEN Out(Err("InvalidCircuitAccess",
                    Display(IF r.res.val.t = "Mutable" THEN r.res.val.val ELSE r.res.val)),
                r.m)
       ELSE
       LET circuit == IF r.res.val.t = "Mutable" THEN r.res.val.val ELSE r.res.val
           members == circuit.members
           matching == {i \in DOMAIN members : members[i].id = circuit_member}
       IN IF matching = {}
          THEN Out(Err("UndefinedCircuitObject", circuit_member), r.m)
          ELSE LET member == members[First(matching)]
               IN IF member.val.t = "Function"
                  THEN Out(Ok(member.val),
                           store_circuit_fields(r.m, file_scope, circuit.name,
                                                member.id, members))
                  ELSE Out(Ok(member.val), r.m)

enforce_circuit_static_access_expression(m, file_scope, function_scope, expected_types, circuit_identifier, circuit_member) ==
    LET r == enforce_expression(m, file_scope, function_scope, expected_types,
                                circuit_identifier)
    IN IF ~r.res.ok THEN r
       ELSE IF r.res.val.t # "CircuitDefinition"
       THEN Out(Err("InvalidCircuitAccess", Display(r.res.val)), r.m)
       ELSE
       LET circuit == r.res.val
           matching == {i \in DOMAIN circuit.members :
                           /\ circuit.members[i].m = "CircuitFunction"
                           /\ circuit.members[i].static}
       IN IF matching = {}
          THEN Out(Err("UndefinedStaticFunction",
                       circuit.identifier \o "::" \o circuit_member), r.m)
          ELSE LET matched_function == circuit.members[First(matching)]
               IN IF matched_function.static
                  THEN Out(Ok(FunctionV(<<circuit.identifier>>,
                                        matched_function.function)), r.m)
                  ELSE Out(Err("InvalidStaticFunction",
                               matched_function.function.function_name), r.m)

\* enforce_function_call_expression invoking every function in the file scope
enforce_function_call_expression_file_scope(m, file_scope, function_scope, expected_types, function, arguments) ==
    LET function_value == enforce_expression(m, file_scope, function_scope,
                                             expected_types, function)
    IN IF ~function_value.res.ok THEN function_value
       ELSE IF function_value.res.val.t # "Function"
       THEN Out(Err("UndefinedFunction", Display(function_value.res.val)),
                function_value.m)
       ELSE
       LET circuit_identifier == function_value.res.val.circuit
           outer_scope == file_scope
           function_call == function_value.res.val.function
           returned == enforce_function(function_value.m, outer_scope, function_scope,
                                        function_call, arguments)
       IN IF ~returned.res.ok
          THEN Out(Err("FunctionError", returned.res.msg), returned.m)
          ELSE IF returned.res.val.t = "Return"
          THEN IF Len(returned.res.val.vals) = 1
               THEN Out(Ok(returned.res.val.vals[1]), returned.m)
               ELSE Out(Ok(ReturnV(returned.res.val.vals)), returned.m)
          ELSE Out(Err("FunctionDidNotReturn", ExprDisplay(function)), returned.m)

enforce_function_call_expression(m, file_scope, function_scope, expected_types, function, arguments) ==
    LET function_value == enforce_expression(m, file_scope, function_scope,
                                             expected_types, function)
    IN IF ~function_value.res.ok THEN function_value
       ELSE IF function_value.res.val.t # "Function"
       THEN Out(Err("UndefinedFunction", Display(function_value.res.val)),
                function_value.m)
       ELSE
       LET circuit_identifier == function_value.res.val.circuit
           outer_scope == IF circuit_identifier # <<>>
                          THEN new_scope(file_scope, circuit_identifier[1])
                          ELSE file_scope
           function_call == function_value.res.val.function
           returned == enforce_function(function_value.m, outer_scope, function_scope,
                                        function_call, arguments)
       IN IF ~returned.res.ok
          THEN Out(Err("FunctionError", returned.res.msg), returned.m)
          ELSE IF returned.res.val.t = "Return"
          THEN IF Len(returned.res.val.vals) = 1
               THEN Out(Ok(returned.res.val.vals[1]), returned.m)
               ELSE Out(Ok(ReturnV(returned.res.val.vals)), returned.m)
          ELSE Out(Err("FunctionDidNotReturn", ExprDisplay(function)), returned.m)

enforce_expression(m0, file_scope, function_scope, expected_types, expression) ==
    LET m == Visited(m0, expected_types, expression)
    IN
    CASE expression.e = "Identifier" ->
            evaluate_identifier(m, file_scope, function_scope, expected_types,
                                expression.name)
      [] expression.e = "Integer" -> Out(Ok(IntegerV(expression.ty, expression.n)), m)
      [] expression.e = "FieldElement" -> Out(Ok(FieldV(expression.n)), m)
      [] expression.e = "GroupElement" -> Out(Ok(GroupV(expression.n)), m)
      [] expression.e = "Boolean" -> Out(Ok(BooleanV(expression.b)), m)
      [] expression.e = "Implicit" ->
            Out(enforce_number_implicit(expected_types, expression.text), m)
      [] expression.e \in BinaryNodes ->
            LET resolved_left == enforce_expression(m, file_scope, function_scope,
                                                    expected_types, expression.left)
            IN IF ~resolved_left.res.ok THEN resolved_left
               ELSE
               LET resolved_right == enforce_expression(resolved_left.m, file_scope,
                                         function_scope, expected_types, expression.right)
               IN IF ~resolved_right.res.ok THEN resolved_right
                  ELSE BinaryOperator(expression.e, resolved_right.m,
                                      resolved_left.res.val, resolved_right.res.val)
      [] expression.e = "Not" ->
            LET r == enforce_expression(m, file_scope, function_scope,
                                        expected_types, expression.inner)
            IN IF ~r.res.ok THEN r ELSE evaluate_not(r.m, r.res.val)
      [] expression.e = "IfElse" ->
            enforce_conditional_expression(m, file_scope, function_scope, expected_types,
                expression.first, expression.second, expression.third)
      [] expression.e = "Array" ->
            enforce_array_expression(m, file_scope, function_scope, expected_types,
                                     expression.elems)
      [] expression.e = "ArrayAccess" ->
            enforce_array_access_expression(m, file_scope, function_scope,
                expected_types, expression.array, expression.index)
      [] expression.e = "Circuit" ->
            enforce_circuit_expression(m, file_scope, function_scope,
                                       expression.name, expression.members)
      [] expression.e = "CircuitMemberAccess" ->
            enforce_circuit_access_expression(m, file_scope, function_scope,
                expected_types, expression.circuit, expression.member)
      [] expression.e = "CircuitStaticFunctionAccess" ->
            enforce_circuit_static_access_expression(m, file_scope, function_scope,
                expected_types, expression.circuit, expression.member)
      [] expression.e = "FunctionCall" ->
            enforce_function_call_expression(m, file_scope, function_scope,
                expected_types, expression.function, expression.arguments)

(***************************************************************************)
(* The state machine: a call is drawn with its arguments and the state at  *)
(* entry (scope store, constraint system); one action per evaluator runs   *)
(* it to completion.                                                       *)
(***************************************************************************)
VARIABLES pc, call, store, cs, log, visits, dispatches, recursions, result

vars == <<pc, call, store, cs, log, visits, dispatches, recursions, result>>

EmptyStore == [key \in {} |-> BooleanV(TRUE)]
\* a constraint group allocated before the call
Prior == [g |-> "prior", a |-> BooleanV(TRUE), b |-> BooleanV(TRUE)]

(* operands *)
Primitives ==
    {BooleanV(TRUE), BooleanV(FALSE),
     IntegerV("u32", 0), IntegerV("u32", 2), IntegerV("u32", 3),
     IntegerV("u8", 2), IntegerV("u8", 255),
     FieldV(0), FieldV(5), GroupV(1), GroupV(3)}
Literals == {UnresolvedV(<<2>>), UnresolvedV(<<3, 0, 0>>)}
Aggregates == {ArrayV(<<IntegerV("u32", 1)>>)}

RECURSIVE Wrapped(_, _)
Wrapped(base, depth) ==
    IF depth = 0 THEN base
    ELSE base \cup {MutableV(v) : v \in Wrapped(base, depth - 1)}

Operands == Wrapped(Primitives \cup Literals \cup Aggregates, MaxMutDepth)

RECURSIVE unwrap(_)
unwrap(v) == IF v.t = "Mutable" THEN unwrap(v.val) ELSE v

RECURSIVE MutDepth(_)
MutDepth(v) == IF v.t = "Mutable" THEN 1 + MutDepth(v.val) ELSE 0

(* expressions *)
IdentifierE(name) == [e |-> "Identifier", name |-> name]
IntegerE(ty, n) == [e |-> "Integer", ty |-> ty, n |-> n]
FieldE(n) == [e |-> "FieldElement", n |-> n]
GroupE(n) == [e |-> "GroupElement", n |-> n]
BooleanE(b) == [e |-> "Boolean", b |-> b]
ImplicitE(text) == [e |-> "Implicit", text |-> text]
BinaryE(op, left, right) == [e |-> op, left |-> left, right |-> right]
NotE(inner) == [e |-> "Not", inner |-> inner]
IfElseE(first, second, third) ==
    [e |-> "IfElse", first |-> first, second |-> second, third |-> third]
ArrayE(elems) == [e |-> "Array", elems |-> elems]
ArrayAccessE(array, index) == [e |-> "ArrayAccess", array |-> array, index |-> index]
\* RangeOrExpression: the endpoints of a range are Options, <<>> or <<n>>
RangeR(from, to) == [r |-> "Range", from |-> from, to |-> to]
IndexR(x) == [r |-> "Expression", x |-> x]
CircuitE(name, members) == [e |-> "Circuit", name |-> name, members |-> members]
CircuitFieldDefinition(identifier, expression) == [identifier |-> identifier, expression |-> expression]
CircuitMemberAccessE(circuit, member) == [e |-> "CircuitMemberAccess", circuit |-> circuit, member |-> member]
CircuitStaticFunctionAccessE(circuit, member) == [e |-> "CircuitStaticFunctionAccess", circuit |-> circuit, member |-> member]
FunctionCallE(function, arguments) == [e |-> "FunctionCall", function |-> function, arguments |-> arguments]
SpreadS(x) == [s |-> "Spread", x |-> x]
ExpressionS(x) == [s |-> "Expression", x |-> x]

NoOperand == BooleanV(FALSE)
NoExpression == BooleanE(FALSE)

Call(fn, left, right, name, et, expr, st, cs0) ==
    [fn |-> fn, left |-> left, right |-> right, name |-> name, et |-> et,
     expr |-> expr, file_scope |-> "main", function_scope |-> "main.f",
     store |-> st, cs |-> cs0]

BinaryFunctions ==
    {"enforce_add_expression", "enforce_sub_expression", "enforce_mul_expression",
     "enforce_div_expression", "enforce_pow_expression", "evaluate_eq_expression",
     "evaluate_geq_expression", "evaluate_gt_expression", "evaluate_leq_expression",
     "evaluate_lt_expression"}

BinaryCalls ==
    {Call(fn, l, r, "", <<>>, NoExpression, EmptyStore, <<Prior>>) :
        fn \in BinaryFunctions, l \in Operands, r \in Operands}

(* identifier lookups: every store of at most MaxStoreKeys keys *)
LookupKeys == {"main.f.x", "main.x", "x", "main.f.y", "f.x"}
StoredValues ==
    {IntegerV("u32", 1), FieldV(2), UnresolvedV(<<5>>), UnresolvedV(<<3, 0, 0>>),
     MutableV(BooleanV(TRUE)), ArrayV(<<IntegerV("u32", 1), IntegerV("u32", 2)>>)}
LookupStores ==
    UNION {[keys -> StoredValues] :
             keys \in {ks \in SUBSET LookupKeys : Cardinality(ks) <= MaxStoreKeys}}
ExpectedTypes ==
    {<<>>, <<IntegerT("u32")>>, <<IntegerT("u8")>>, <<BooleanT>>,
     <<IntegerT("u32"), FieldT>>, <<ArrayT(IntegerT("u32"), <<2>>)>>,
     <<CircuitT("Point")>>}

IdentifierCalls ==
    {Call("evaluate_identifier", NoOperand, NoOperand, name, et, NoExpression, st, cs0) :
        name \in {"x", "y"}, et \in ExpectedTypes, st \in LookupStores,
        cs0 \in {<<Prior>>}}

(* ternaries *)
ConditionStore ==
    [key \in {"main.f.c", "main.f.x", "main.n", "main.f.mc", "main.f.mb"} |->
        CASE key = "main.f.c" -> BooleanV(TRUE)
          [] key = "main.f.x" -> MutableV(IntegerV("u32", 7))
          [] key = "main.f.mc" -> MutableV(BooleanV(TRUE))
          [] key = "main.f.mb" -> MutableV(BooleanV(FALSE))
          [] key = "main.n" -> UnresolvedV(<<9>>)]
Conditions ==
    {BooleanE(TRUE), BooleanE(FALSE), IdentifierE("c"), IdentifierE("x"),
     IdentifierE("mc"), IntegerE("u32", 1), ImplicitE(<<1>>),
     BinaryE("Eq", IntegerE("u32", 2), IntegerE("u32", 2)), NotE(BooleanE(TRUE))}
Branches ==
    {ImplicitE(<<7>>), ImplicitE(<<9>>), IntegerE("u32", 7), IntegerE("u8", 2),
     BooleanE(TRUE), BooleanE(FALSE), FieldE(5), IdentifierE("n"), IdentifierE("zz"),
     IdentifierE("x"), IdentifierE("mb"),
     BinaryE("Add", ImplicitE(<<7>>), IntegerE("u32", 2)),
     BinaryE("Add", IntegerE("u8", 255), IntegerE("u8", 2))}
ConditionalCalls ==
    {Call("enforce_conditional_expression", NoOperand, NoOperand, "", et,
          IfElseE(c, a, b), ConditionStore, cs0) :
        c \in Conditions, a \in Branches, b \in Branches,
        et \in {<<>>, <<IntegerT("u32")>>, <<BooleanT>>}, cs0 \in {<<>>, <<Prior>>}}

(* array literals *)
ArrayStore ==
    [key \in {"main.f.xs", "main.f.b", "main.ys"} |->
        CASE key = "main.f.xs" -> ArrayV(<<IntegerV("u32", 1), IntegerV("u32", 2)>>)
          [] key = "main.f.b" -> BooleanV(TRUE)
          [] key = "main.ys" -> ArrayV(<<IntegerV("u32", 4)>>)]
Elements ==
    {ExpressionS(ImplicitE(<<1>>)), ExpressionS(IntegerE("u32", 2)),
     ExpressionS(BooleanE(TRUE)), SpreadS(IdentifierE("xs")), SpreadS(IdentifierE("b")),
     SpreadS(IdentifierE("ys")), SpreadS(ImplicitE(<<1>>)),
     ExpressionS(ArrayE(<<ExpressionS(ImplicitE(<<1>>)), ExpressionS(ImplicitE(<<2>>))>>))}
ArrayLiterals == UNION {[1..n -> Elements] : n \in 0..MaxArrayLen}
ArrayTypes ==
    {<<>>, <<ArrayT(IntegerT("u32"), <<2>>)>>, <<ArrayT(IntegerT("u32"), <<3>>)>>,
     <<ArrayT(IntegerT("u32"), <<2, 2>>)>>, <<IntegerT("u32")>>}
ArrayCalls ==
    {Call("enforce_array_expression", NoOperand, NoOperand, "", et,
          ArrayE(elems), ArrayStore, <<>>) :
        elems \in ArrayLiterals, et \in ArrayTypes}

(* array accesses *)
AccessStore ==
    [key \in {"main.f.xs", "main.f.e", "main.f.ma", "main.f.mma", "main.f.b", "main.f.i",
              "main.f.ei"} |->
        CASE key = "main.f.xs" -> ArrayV(<<IntegerV("u32", 1), IntegerV("u32", 2)>>)
          [] key = "main.f.e" -> ArrayV(<<>>)
          [] key = "main.f.ma" ->
                MutableV(ArrayV(<<BooleanV(TRUE), BooleanV(FALSE), BooleanV(TRUE)>>))
          [] key = "main.f.mma" -> MutableV(MutableV(ArrayV(<<IntegerV("u32", 1)>>)))
          [] key = "main.f.b" -> BooleanV(TRUE)
          [] key = "main.f.i" -> UnresolvedV(<<1>>)
          [] key = "main.f.ei" -> UnresolvedV(<<>>)]
AccessedArrays ==
    {IdentifierE("xs"), IdentifierE("e"), IdentifierE("ma"), IdentifierE("mma"),
     IdentifierE("b"), IdentifierE("zz"),
     ArrayE(<<ExpressionS(ImplicitE(<<1>>)), ExpressionS(ImplicitE(<<2>>)),
              ExpressionS(ImplicitE(<<3>>))>>)}
\* the text of 2^64, one more than usize::MAX
TooLarge == <<1, 8, 4, 4, 6, 7, 4, 4, 0, 7, 3, 7, 0, 9, 5, 5, 1, 6, 1, 6>>
Endpoints == {<<>>} \cup {<<n>> : n \in 0..(MaxArrayLen + 1)}
Indices ==
    {RangeR(from, to) : from \in Endpoints, to \in Endpoints}
    \cup {IndexR(x) : x \in {ImplicitE(<<1>>), ImplicitE(<<7>>), IntegerE("u32", 0),
                              IntegerE("u32", 5), BooleanE(TRUE), IdentifierE("i"),
                              ImplicitE(<<>>), ImplicitE(TooLarge), IdentifierE("ei"),
                              BinaryE("Add", IntegerE("u32", 1), IntegerE("u32", 1))}}
AccessTypes ==
    {<<>>, <<ArrayT(IntegerT("u32"), <<3>>)>>, <<IntegerT("u32")>>, <<FieldT>>, <<BooleanT>>}
ArrayAccessCalls ==
    {Call("enforce_array_access_expression", NoOperand, NoOperand, "", et,
          ArrayAccessE(array, index), AccessStore, <<>>) :
        array \in AccessedArrays, index \in Indices, et \in AccessTypes}

(* record literals *)
Norm == FunctionAst("norm", Ok(ReturnV(<<IntegerV("u32", 5)>>)))
Origin == FunctionAst("origin", Ok(ReturnV(<<IntegerV("u32", 0), IntegerV("u32", 0)>>)))
PointDefinition ==
    CircuitDefinitionV("Point",
        <<CircuitFieldM("x", IntegerT("u32")), CircuitFunctionM(FALSE, Norm),
          CircuitFieldM("y", IntegerT("u8")), CircuitFunctionM(TRUE, Origin)>>)
FlagDefinition == CircuitDefinitionV("Flag", <<CircuitFieldM("on", BooleanT)>>)
CircuitStore ==
    [key \in {"main.Point", "main.Flag", "main", "main.f.Alias", "main.n"} |->
        CASE key = "main.Point" -> PointDefinition
          [] key = "main.Flag" -> FlagDefinition
          [] key = "main" -> PointDefinition
          [] key = "main.f.Alias" -> PointDefinition
          [] key = "main.n" -> IntegerV("u32", 1)]
Bindings ==
    {CircuitFieldDefinition("x", ImplicitE(<<3>>)),
     CircuitFieldDefinition("x", ImplicitE(<<4>>)),
     CircuitFieldDefinition("x", BinaryE("Add", IntegerE("u32", 1), IntegerE("u32", 2))),
     CircuitFieldDefinition("x", IdentifierE("zz")),
     CircuitFieldDefinition("y", ImplicitE(<<4>>)),
     CircuitFieldDefinition("y", ImplicitE(<<3, 0, 0>>)),
     CircuitFieldDefinition("y", BinaryE("Add", IntegerE("u8", 2), IntegerE("u8", 2))),
     CircuitFieldDefinition("on", BooleanE(TRUE)),
     CircuitFieldDefinition("z", BooleanE(TRUE))}
BindingLists == UNION {[1..n -> Bindings] : n \in 0..MaxBindings}
CircuitNames == {"Point", "Flag", "Self", "Alias", "n", "Nope"}
CircuitCalls ==
    {Call("enforce_circuit_expression", NoOperand, NoOperand, "", <<>>,
          CircuitE(name, members), CircuitStore, <<>>) :
        name \in CircuitNames, members \in BindingLists}

(* member accesses *)
Get == FunctionAst("get", Ok(ReturnV(<<IntegerV("u32", 7)>>)))
PointValue ==
    CircuitExpressionV("Point",
        <<ConstrainedCircuitMember("x", IntegerV("u32", 3)),
          ConstrainedCircuitMember("norm", FunctionV(<<"Point">>, Norm)),
          ConstrainedCircuitMember("y", MutableV(IntegerV("u8", 4))),
          ConstrainedCircuitMember("origin", StaticV(FunctionV(<<"Point">>, Origin)))>>)
\* a data field declared before a method of the same name
FieldFirst ==
    CircuitExpressionV("Q",
        <<ConstrainedCircuitMember("get", IntegerV("u32", 7)),
          ConstrainedCircuitMember("get", FunctionV(<<"Q">>, Get)),
          ConstrainedCircuitMember("x", BooleanV(TRUE))>>)
\* a method declared before a data field of the same name
MethodFirst ==
    CircuitExpressionV("R",
        <<ConstrainedCircuitMember("x", ArrayV(<<IntegerV("u32", 1)>>)),
          ConstrainedCircuitMember("get", FunctionV(<<"R">>, Get)),
          ConstrainedCircuitMember("get", IntegerV("u32", 7))>>)
MemberStoreKeys ==
    {"main.f.p", "main.f.mp", "main.f.mmp", "main.f.q", "main.f.r", "main.f.n",
     "main.Point", "main.Point.norm.x", "main.Point.x"}
MemberStore(keys) ==
    [key \in keys |->
        CASE key = "main.f.p" -> PointValue
          [] key = "main.f.mp" -> MutableV(PointValue)
          [] key = "main.f.mmp" -> MutableV(MutableV(PointValue))
          [] key = "main.f.q" -> FieldFirst
          [] key = "main.f.r" -> MethodFirst
          [] key = "main.f.n" -> IntegerV("u32", 1)
          [] key = "main.Point" -> PointDefinition
          [] key = "main.Point.norm.x" -> IntegerV("u32", 99)
          [] key = "main.Point.x" -> IntegerV("u32", 98)]
MemberStores ==
    {MemberStore(MemberStoreKeys), MemberStore(MemberStoreKeys \ {"main.Point.norm.x"}),
     MemberStore(MemberStoreKeys \ {"main.Point.x"})}
AccessedCircuits ==
    {IdentifierE("p"), IdentifierE("mp"), IdentifierE("mmp"), IdentifierE("q"),
     IdentifierE("r"), IdentifierE("n"), IdentifierE("zz"),
     CircuitE("Point", <<CircuitFieldDefinition("y", ImplicitE(<<4>>)),
                         CircuitFieldDefinition("x", ImplicitE(<<3>>))>>),
     CircuitMemberAccessE(IdentifierE("p"), "norm"),
     CircuitMemberAccessE(IdentifierE("p"), "x")}
MemberNames == {"x", "y", "norm", "origin", "get", "zz"}
CircuitAccessCalls ==
    {Call("enforce_circuit_access_expression", NoOperand, NoOperand, "", et,
          CircuitMemberAccessE(circuit, member), st, <<>>) :
        circuit \in AccessedCircuits, member \in MemberNames,
        et \in {<<>>, <<IntegerT("u32")>>}, st \in MemberStores}

(* static accesses *)
Zero == FunctionAst("zero", Ok(ReturnV(<<IntegerV("u32", 0)>>)))
One == FunctionAst("one", Ok(ReturnV(<<IntegerV("u32", 1)>>)))
\* a record with two static functions, and one with an instance function only
PairDefinition ==
    CircuitDefinitionV("Pair",
        <<CircuitFieldM("x", IntegerT("u32")), CircuitFunctionM(TRUE, Zero),
          CircuitFunctionM(TRUE, One)>>)
PlainDefinition ==
    CircuitDefinitionV("Plain",
        <<CircuitFieldM("x", IntegerT("u32")), CircuitFunctionM(FALSE, Norm)>>)
StaticStore ==
    [key \in {"main.Point", "main.Pair", "main.Plain", "main.f.p", "main.f.n",
              "main.Point.x"} |->
        CASE key = "main.Point" -> PointDefinition
          [] key = "main.Pair" -> PairDefinition
          [] key = "main.Plain" -> PlainDefinition
          [] key = "main.f.p" -> PointValue
          [] key = "main.f.n" -> IntegerV("u32", 1)
          [] key = "main.Point.x" -> IntegerV("u32", 98)]
StaticReceivers ==
    {IdentifierE("Point"), IdentifierE("Pair"), IdentifierE("Plain"), IdentifierE("p"),
     IdentifierE("n"), IdentifierE("zz")}
StaticNames == {"zero", "one", "norm", "origin", "x", "zz"}
StaticAccessCalls ==
    {Call("enforce_circuit_static_access_expression", NoOperand, NoOperand, "", et,
          CircuitStaticFunctionAccessE(circuit, member), StaticStore, cs0) :
        circuit \in StaticReceivers, member \in StaticNames,
        et \in {<<>>, <<IntegerT("u32")>>}, cs0 \in {<<>>, <<Prior>>}}

(* function calls *)
\* the outcomes of running a body: Return of 0, 1, 2 values, another value, an error
Bodies ==
    {Ok(ReturnV(<<>>)), Ok(ReturnV(<<IntegerV("u32", 5)>>)),
     Ok(ReturnV(<<ReturnV(<<BooleanV(TRUE)>>)>>)),
     Ok(ReturnV(<<IntegerV("u32", 5), BooleanV(TRUE)>>)),
     Ok(IntegerV("u32", 5)), Ok(ArrayV(<<IntegerV("u32", 5)>>)),
     Err("StatementError", "assertion failed")}
FunctionStore(body) ==
    [key \in {"main.g", "main.f.m", "main.f.p", "main.f.n", "main.Point", "main.f.s"} |->
        CASE key = "main.g" -> FunctionV(<<>>, FunctionAst("g", body))
          [] key = "main.f.m" -> FunctionV(<<"Point">>, FunctionAst("m", body))
          [] key = "main.f.p" -> PointValue
          [] key = "main.f.n" -> IntegerV("u32", 1)
          [] key = "main.Point" -> PointDefinition
          [] key = "main.f.s" -> StaticV(FunctionV(<<"Point">>, FunctionAst("s", body)))]
Callees ==
    {IdentifierE("g"), IdentifierE("m"), IdentifierE("n"), IdentifierE("s"),
     IdentifierE("zz"),
     CircuitMemberAccessE(IdentifierE("p"), "norm"),
     CircuitMemberAccessE(IdentifierE("p"), "origin"),
     CircuitMemberAccessE(IdentifierE("p"), "x"),
     CircuitMemberAccessE(CircuitE("Point", <<CircuitFieldDefinition("y", ImplicitE(<<4>>)),
                                              CircuitFieldDefinition("x", ImplicitE(<<3>>))>>),
                          "norm"),
     CircuitStaticFunctionAccessE(IdentifierE("Point"), "origin")}
Arguments == {<<>>, <<ImplicitE(<<1>>)>>, <<IdentifierE("n"), BooleanE(TRUE)>>}
FunctionCalls ==
    {Call("enforce_function_call_expression", NoOperand, NoOperand, "", et,
          FunctionCallE(function, arguments), FunctionStore(body), cs0) :
        function \in Callees, arguments \in Arguments, body \in Bodies,
        et \in {<<>>, <<IntegerT("u32")>>}, cs0 \in {<<>>, <<Prior>>}}

(* nodes whose subexpressions emit constraints *)
Emitting ==
    {BinaryE("Add", IntegerE("u32", 1), IntegerE("u32", 2)),
     BinaryE("Mul", IntegerE("u32", 2), IntegerE("u32", 3)),
     BinaryE("Add", IntegerE("u8", 2), IntegerE("u8", 2)),
     BinaryE("And", BooleanE(TRUE), BooleanE(FALSE)),
     BinaryE("Or", BooleanE(FALSE), BooleanE(TRUE)),
     IntegerE("u32", 9), IdentifierE("zz")}
Nodes ==
    {BinaryE(op, a, b) : op \in {"Add", "Mul", "And", "Eq"}, a \in Emitting, b \in Emitting}
    \cup {IfElseE(c, a, b) : c \in {BinaryE("And", BooleanE(TRUE), BooleanE(FALSE)),
                                      BinaryE("Or", BooleanE(FALSE), BooleanE(TRUE)),
                                      BooleanE(TRUE)},
                             a \in Emitting, b \in Emitting}
    \cup {ArrayE([i \in DOMAIN elems |-> ExpressionS(elems[i])]) :
             elems \in UNION {[1..n -> Emitting] : n \in 0..MaxArrayLen}}
    \cup {CircuitE("Point", members) : members \in BindingLists}
ExpressionCalls ==
    {Call("enforce_expression", NoOperand, NoOperand, "", <<>>, node, CircuitStore, cs0) :
        node \in Nodes, cs0 \in {<<>>, <<Prior>>}}

(* untyped numeric literals *)
LiteralTypes ==
    {IntegerT("u32"), IntegerT("u8"), FieldT, GroupT, BooleanT,
     ArrayT(IntegerT("u32"), <<2>>), CircuitT("Point")}
TypeLists == UNION {[1..n -> LiteralTypes] : n \in 0..3}
ImplicitCalls ==
    {Call("enforce_number_implicit", NoOperand, NoOperand, "", et, ImplicitE(text),
          EmptyStore, <<>>) :
        et \in TypeLists, text \in {<<0>>, <<5>>, <<9>>, <<3, 0, 0>>}}

(* indices *)
IndexStore ==
    [key \in {"main.f.i", "main.f.ei", "main.f.big", "main.f.b", "main.f.p"} |->
        CASE key = "main.f.i" -> UnresolvedV(<<1>>)
          [] key = "main.f.ei" -> UnresolvedV(<<>>)
          [] key = "main.f.big" -> UnresolvedV(TooLarge)
          [] key = "main.f.b" -> BooleanV(TRUE)
          [] key = "main.f.p" -> PointValue]
IndexExpressions ==
    {ImplicitE(<<1>>), ImplicitE(<<0, 0, 7>>), ImplicitE(<<>>), ImplicitE(TooLarge),
     ImplicitE(UsizeMaxText \o <<0>>), ImplicitE(<<3, 0, 0>>),
     IntegerE("u32", 0), IntegerE("u8", 5), BooleanE(TRUE), FieldE(5),
     IdentifierE("i"), IdentifierE("ei"), IdentifierE("big"), IdentifierE("b"),
     IdentifierE("zz"),
     BinaryE("Add", IntegerE("u32", 1), IntegerE("u32", 1)),
     BinaryE("Add", ImplicitE(<<1>>), ImplicitE(<<1>>)),
     CircuitMemberAccessE(IdentifierE("p"), "norm"),
     CircuitMemberAccessE(IdentifierE("p"), "x"),
     ArrayE(<<ExpressionS(ImplicitE(<<1>>))>>)}
IndexTypes ==
    {<<>>, <<IntegerT("u32")>>, <<IntegerT("u8")>>, <<FieldT>>, <<BooleanT>>,
     <<IntegerT("u32"), FieldT>>}
IndexCalls ==
    {Call("enforce_index", NoOperand, NoOperand, "", et, index, IndexStore, cs0) :
        index \in IndexExpressions, et \in IndexTypes, cs0 \in {<<>>, <<Prior>>}}

NoResult == Err("none", "")

Init ==
    /\ pc = "start"
    /\ \/ call \in BinaryCalls
       \/ call \in IdentifierCalls
       \/ call \in ConditionalCalls
       \/ call \in ArrayCalls
       \/ call \in ArrayAccessCalls
       \/ call \in CircuitCalls
       \/ call \in CircuitAccessCalls
       \/ call \in StaticAccessCalls
       \/ call \in FunctionCalls
       \/ call \in ExpressionCalls
       \/ call \in ImplicitCalls
       \/ call \in IndexCalls
    /\ store = call.store
    /\ cs = call.cs
    /\ log = <<>>
    /\ visits = <<>>
    /\ dispatches = <<>>
    /\ recursions = 0
    /\ result = NoResult

Entry ==
    [store |-> store, cs |-> cs, log |-> log, visits |-> visits, dispatches |-> dispatches,
     recursions |-> recursions]

Finish(out) ==
    /\ pc' = "done"
    /\ result' = out.res
    /\ store' = out.m.store
    /\ cs' = out.m.cs
    /\ log' = out.m.log
    /\ visits' = out.m.visits
    /\ dispatches' = out.m.dispatches
    /\ recursions' = out.m.recursions
    /\ UNCHANGED call

Starts(fn) == pc = "start" /\ call.fn = fn

EvaluateIdentifier ==
    /\ Starts("evaluate_identifier")
    /\ Finish(evaluate_identifier(Entry, call.file_scope, call.function_scope,
                                  call.et, call.name))
EnforceAdd ==
    /\ Starts("enforce_add_expression")
    /\ Finish(enforce_add_expression(Entry, call.left, call.right))
EnforceSub ==
    /\ Starts("enforce_sub_expression")
    /\ Finish(enforce_sub_expression(Entry, call.left, call.right))
EnforceMul ==
    /\ Starts("enforce_mul_expression")
    /\ Finish(enforce_mul_expression(Entry, call.left, call.right))
EnforceDiv ==
    /\ Starts("enforce_div_expression")
    /\ Finish(enforce_div_expression(Entry, call.left, call.right))
EnforcePow ==
    /\ Starts("enforce_pow_expression")
    /\ Finish(enforce_pow_expression(Entry, call.left, call.right))
EvaluateEq ==
    /\ Starts("evaluate_eq_expression")
    /\ Finish(evaluate_eq_expression(Entry, call.left, call.right))
EvaluateGeq ==
    /\ Starts("evaluate_geq_expression")
    /\ Finish(evaluate_geq_expression(Entry, call.left, call.right))
EvaluateGt ==
    /\ Starts("evaluate_gt_expression")
    /\ Finish(evaluate_gt_expression(Entry, call.left, call.right))
EvaluateLeq ==
    /\ Starts("evaluate_leq_expression")
    /\ Finish(evaluate_leq_expression(Entry, call.left, call.right))
EvaluateLt ==
    /\ Starts("evaluate_lt_expression")
    /\ Finish(evaluate_lt_expression(Entry, call.left, call.right))
EnforceConditional ==
    /\ Starts("enforce_conditional_expression")
    /\ Finish(enforce_expression(Entry, call.file_scope, call.function_scope,
                                 call.et, call.expr))
EnforceArray ==
    /\ Starts("enforce_array_expression")
    /\ Finish(enforce_expression(Entry, call.file_scope, call.function_scope,
                                 call.et, call.expr))
EnforceArrayAccess ==
    /\ Starts("enforce_array_access_expression")
    /\ Finish(enforce_expression(Entry, call.file_scope, call.function_scope,
                                 call.et, call.expr))
EnforceCircuit ==
    /\ Starts("enforce_circuit_expression")
    /\ Finish(enforce_expression(Entry, call.file_scope, call.function_scope,
                                 call.et, call.expr))
EnforceCircuitAccess ==
    /\ Starts("enforce_circuit_access_expression")
    /\ Finish(enforce_expression(Entry, call.file_scope, call.function_scope,
                                 call.et, call.expr))
EnforceCircuitStaticAccess ==
    /\ Starts("enforce_circuit_static_access_expression")
    /\ Finish(enforce_expression(Entry, call.file_scope, call.function_scope,
                                 call.et, call.expr))
EnforceFunctionCall ==
    /\ Starts("enforce_function_call_expression")
    /\ Finish(enforce_expression(Entry, call.file_scope, call.function_scope,
                                 call.et, call.expr))
EnforceExpression ==
    /\ Starts("enforce_expression")
    /\ Finish(enforce_expression(Entry, call.file_scope, call.function_scope,
                                 call.et, call.expr))
EnforceIndex ==
    /\ Starts("enforce_index")
    /\ Finish(enforce_index(Entry, call.file_scope, call.function_scope, call.et,
                             call.expr))
EnforceNumberImplicit ==
    /\ Starts("enforce_number_implicit")
    /\ Finish(Out(enforce_number_implicit(call.et, call.expr.text), Entry))

Next ==
    \/ EvaluateIdentifier
    \/ EnforceAdd
    \/ EnforceSub
    \/ EnforceMul
    \/ EnforceDiv
    \/ EnforcePow
    \/ EvaluateEq
    \/ EvaluateGeq
    \/ EvaluateGt
    \/ EvaluateLeq
    \/ EvaluateLt
    \/ EnforceConditional
    \/ EnforceArray
    \/ EnforceArrayAccess
    \/ EnforceCircuit
    \/ EnforceCircuitAccess
    \/ EnforceCircuitStaticAccess
    \/ EnforceFunctionCall
    \/ EnforceExpression
    \/ EnforceIndex
    \/ EnforceNumberImplicit

Spec == Init /\ [][Next]_vars

Done(fn) == pc = "done" /\ call.fn = fn
TypeOK == pc \in {"start", "done"}

(***************************************************************************)
(* Vocabulary of the properties.                                           *)
(***************************************************************************)
\* the machine state at entry of the call and the outcome after it
AtEntry ==
    [store |-> call.store, cs |-> call.cs, log |-> <<>>, visits |-> <<>>, dispatches |-> <<>>,
     recursions |-> 0]
Outcome ==
    Out(result, [store |-> store, cs |-> cs, log |-> log, visits |-> visits,
                 dispatches |-> dispatches, recursions |-> recursions])

\* two outcomes with the same result and the same effects, whatever the number of
\* calls the operator made to itself
SameEffect(a, b) ==
    a.res = b.res /\ [a.m EXCEPT !.recursions = 0] = [b.m EXCEPT !.recursions = 0]

Apply(fn, m, left, right) ==
    CASE fn = "enforce_add_expression" -> enforce_add_expression(m, left, right)
      [] fn = "enforce_sub_expression" -> enforce_sub_expression(m, left, right)
      [] fn = "enforce_mul_expression" -> enforce_mul_expression(m, left, right)
      [] fn = "enforce_div_expression" -> enforce_div_expression(m, left, right)
      [] fn = "enforce_pow_expression" -> enforce_pow_expression(m, left, right)
      [] fn = "evaluate_eq_expression" -> evaluate_eq_expression(m, left, right)
      [] fn = "evaluate_geq_expression" -> evaluate_geq_expression(m, left, right)
      [] fn = "evaluate_gt_expression" -> evaluate_gt_expression(m, left, right)
      [] fn = "evaluate_leq_expression" -> evaluate_leq_expression(m, left, right)
      [] fn = "evaluate_lt_expression" -> evaluate_lt_expression(m, left, right)

DoneBinary == pc = "done" /\ call.fn \in BinaryFunctions
Count(seq, x) == Cardinality({i \in DOMAIN seq : seq[i] = x})
GadgetsInvoked == {i \in DOMAIN log : log[i] \in GadgetNames}
Failed(kind) == ~result.ok /\ result.kind = kind

(***************************************************************************)
(* C1 (as stated): evaluate_identifier returns the stored function-scope   *)
(* value itself whenever function_scope.n is bound, otherwise the stored   *)
(* file-scope value, otherwise UndefinedIdentifier(n), and leaves the      *)
(* store unchanged.                                                        *)
(***************************************************************************)
FunctionKey == new_scope(call.function_scope, call.name)
FileKey == new_scope(call.file_scope, call.name)

C1_AsStated ==
    Done("evaluate_identifier") =>
        /\ store = call.store
        /\ result = IF FunctionKey \in DOMAIN call.store
                    THEN Ok(call.store[FunctionKey])
                    ELSE IF FileKey \in DOMAIN call.store
                    THEN Ok(call.store[FileKey])
                    ELSE Err("UndefinedIdentifier", call.name)

(***************************************************************************)
(* C1 (amended): evaluate_identifier for a name n selects the value bound  *)
(* at function_scope.n whenever that key is bound (even if file_scope.n is *)
(* bound too), otherwise the value at file_scope.n, otherwise it returns   *)
(* UndefinedIdentifier(n); a selected value other than Unresolved is       *)
(* returned as it is and a selected Unresolved(t) is returned as           *)
(* enforce_number_implicit(expected_types, t); no other key decides the    *)
(* result and the store is left unchanged.                                 *)
(***************************************************************************)
Resolved(v) ==
    IF v.t = "Unresolved" THEN enforce_number_implicit(call.et, v.text) ELSE Ok(v)

C1_LookupOrder ==
    Done("evaluate_identifier") =>
        /\ store = call.store
        /\ cs = call.cs
        /\ result = IF FunctionKey \in DOMAIN call.store
                    THEN Resolved(call.store[FunctionKey])
                    ELSE IF FileKey \in DOMAIN call.store
                    THEN Resolved(call.store[FileKey])
                    ELSE Err("UndefinedIdentifier", call.name)

\* both keys bound to different values and the function-scope one returned
C1_Witness ==
    /\ Done("evaluate_identifier")
    /\ FunctionKey \in DOMAIN call.store
    /\ FileKey \in DOMAIN call.store
    /\ call.store[FunctionKey] # call.store[FileKey]
    /\ result = Ok(call.store[FunctionKey])

(***************************************************************************)
(* C2: Mutable is transparent to every binary operator: the outcome of     *)
(* op(Mutable(v), x) is that of op(v, x), the outcome of op(x, Mutable(v)) *)
(* is that of op(x, v), and with wrappers nested or on both sides the      *)
(* outcome is that of the operator on the fully unwrapped operands.        *)
(***************************************************************************)
C2_MutableTransparent ==
    DoneBinary =>
        /\ call.left.t = "Mutable" =>
              SameEffect(Outcome, Apply(call.fn, AtEntry, call.left.val, call.right))
        /\ call.right.t = "Mutable" =>
              SameEffect(Outcome, Apply(call.fn, AtEntry, call.left, call.right.val))
        /\ SameEffect(Outcome, Apply(call.fn, AtEntry, unwrap(call.left),
                                  unwrap(call.right)))

\* a literal added to a doubly wrapped integer reaches the integer gadget
C2_Witness ==
    /\ Done("enforce_add_expression")
    /\ call.left.t = "Unresolved"
    /\ call.right.t = "Mutable" /\ call.right.val.t = "Mutable"
    /\ unwrap(call.right).t = "Integer"
    /\ result.ok /\ result.val.t = "Integer"

(***************************************************************************)
(* C3 (as stated): for a Mutable-wrapped m and any operand x, m op x gives *)
(* the same result as x op m, for every binary operator.                   *)
(***************************************************************************)
C3_AsStated ==
    (DoneBinary /\ call.left.t = "Mutable") =>
        result = Apply(call.fn, AtEntry, call.right, call.left).res

(***************************************************************************)
(* C3 (amended): for a Mutable-wrapped m and any operand x, and for the    *)
(* operators Add, Mul and Eq only, m op x and x op m either yield the same *)
(* value or both fail.                                                     *)
(***************************************************************************)
Commutative ==
    {"enforce_add_expression", "enforce_mul_expression", "evaluate_eq_expression"}

C3_CommutativeOperators ==
    (DoneBinary /\ call.fn \in Commutative /\ call.left.t = "Mutable") =>
        LET swapped == Apply(call.fn, AtEntry, call.right, call.left).res
        IN /\ result.ok = swapped.ok
           /\ result.ok => result.val = swapped.val

\* a wrapped integer times a literal: a value, the same in both orders
C3_Witness ==
    /\ Done("enforce_mul_expression")
    /\ call.left.t = "Mutable" /\ unwrap(call.left) = IntegerV("u32", 3)
    /\ call.right = UnresolvedV(<<2>>)
    /\ result = Ok(IntegerV("u32", 6))

(***************************************************************************)
(* C4: for a literal Unresolved(n) meeting a typed primitive peer p, the   *)
(* outcome of op(Unresolved(n), p) is that of op(from_other(n, p), p) and  *)
(* the outcome of op(p, Unresolved(n)) that of op(p, from_other(n, p));    *)
(* from_other is called exactly once, and when it fails the operator       *)
(* returns its error with no gadget invoked and no constraint emitted.     *)
(***************************************************************************)
AfterCoercion == Logged(AtEntry, "from_other")

C4_LiteralCoercedAgainstPeer ==
    DoneBinary =>
        /\ (call.left.t = "Unresolved" /\ IsPrimitive(call.right)) =>
              LET c == from_other(call.left.text, call.right)
              IN /\ Count(log, "from_other") = 1
                 /\ c.ok => SameEffect(Outcome,
                                    Apply(call.fn, AfterCoercion, c.val, call.right))
                 /\ ~c.ok => /\ result = c
                             /\ GadgetsInvoked = {}
                             /\ cs = call.cs
        /\ (call.right.t = "Unresolved" /\ IsPrimitive(call.left)) =>
              LET c == from_other(call.right.text, call.left)
              IN /\ Count(log, "from_other") = 1
                 /\ c.ok => SameEffect(Outcome,
                                    Apply(call.fn, AfterCoercion, call.left, c.val))
                 /\ ~c.ok => /\ result = c
                             /\ GadgetsInvoked = {}
                             /\ cs = call.cs

\* a field element minus a literal: the literal becomes a field element
C4_Witness ==
    /\ Done("enforce_sub_expression")
    /\ call.left = FieldV(5) /\ call.right = UnresolvedV(<<2>>)
    /\ result = Ok(FieldV(3))
    /\ log = <<"from_other", "field_sub">>

\* a literal that does not fit the peer's type: the parse error is returned
C4_WitnessFailure ==
    /\ Done("evaluate_eq_expression")
    /\ call.left = UnresolvedV(<<3, 0, 0>>) /\ call.right = IntegerV("u8", 2)
    /\ Failed("ValueError")

(***************************************************************************)
(* C5: on operands already of a primitive class or an array, Add and Sub   *)
(* invoke a gadget exactly for integer-integer, field-field and            *)
(* group-group pairs, Mul and Div exactly for integer-integer and          *)
(* field-field pairs; every other pair returns IncompatibleTypes, invokes  *)
(* no gadget and emits no constraint.                                      *)
(***************************************************************************)
ResolvedClasses == {"Boolean", "Integer", "FieldElement", "GroupElement", "Array"}

Supported(fn) ==
    IF fn \in {"enforce_add_expression", "enforce_sub_expression"}
    THEN {"Integer", "FieldElement", "GroupElement"}
    ELSE {"Integer", "FieldElement"}

GadgetOf(fn, class) ==
    (CASE class = "Integer" -> "integer_"
       [] class = "FieldElement" -> "field_"
       [] class = "GroupElement" -> "group_")
    \o (CASE fn = "enforce_add_expression" -> "add"
          [] fn = "enforce_sub_expression" -> "sub"
          [] fn = "enforce_mul_expression" -> "mul"
          [] fn = "enforce_div_expression" -> "div")

Arithmetic ==
    {"enforce_add_expression", "enforce_sub_expression",
     "enforce_mul_expression", "enforce_div_expression"}

C5_ArithmeticDispatch ==
    (/\ pc = "done" /\ call.fn \in Arithmetic
     /\ call.left.t \in ResolvedClasses /\ call.right.t \in ResolvedClasses) =>
        IF call.left.t = call.right.t /\ call.left.t \in Supported(call.fn)
        THEN log = <<GadgetOf(call.fn, call.left.t)>>
        ELSE /\ Failed("IncompatibleTypes")
             /\ log = <<>>
             /\ cs = call.cs

\* two group elements: added, but not multiplied
C5_Witness ==
    /\ Done("enforce_mul_expression")
    /\ call.left.t = "GroupElement" /\ call.right.t = "GroupElement"
    /\ Failed("IncompatibleTypes")
    /\ log = <<>>

\* the supported side: two field elements divided through the field gadget
C5_WitnessGadget ==
    /\ Done("enforce_div_expression")
    /\ call.left.t = "FieldElement" /\ call.right = FieldV(5)
    /\ result.ok /\ log = <<"field_div">>

(***************************************************************************)
(* The pair of operands an operator dispatches on once Mutable wrappers    *)
(* are removed and a literal is coerced against its peer.                  *)
(***************************************************************************)
Coercible ==
    LET l == unwrap(call.left)
        r == unwrap(call.right)
    IN /\ ~(l.t = "Unresolved" /\ r.t = "Unresolved")
       /\ l.t = "Unresolved" => from_other(l.text, r).ok
       /\ r.t = "Unresolved" => from_other(r.text, l).ok

ResolvedLeft ==
    LET l == unwrap(call.left)
    IN IF l.t = "Unresolved" THEN from_other(l.text, unwrap(call.right)).val ELSE l

ResolvedRight ==
    LET r == unwrap(call.right)
    IN IF r.t = "Unresolved" THEN from_other(r.text, unwrap(call.left)).val ELSE r

(***************************************************************************)
(* C6: Pow invokes a gadget only for an integer base with an integer       *)
(* exponent and a field base with an integer exponent; whenever the        *)
(* exponent resolves to a FieldElement (directly, under Mutable wrappers,  *)
(* whatever the base, a literal base included) the result is               *)
(* InvalidExponent carrying the exponent's text and no gadget is invoked.  *)
(***************************************************************************)
C6_PowDispatch ==
    Done("enforce_pow_expression") =>
        /\ GadgetsInvoked # {} =>
              /\ Coercible
              /\ ResolvedRight.t = "Integer"
              /\ ResolvedLeft.t \in {"Integer", "FieldElement"}
              /\ log[Len(log)] = (IF ResolvedLeft.t = "Integer"
                                  THEN "integer_pow" ELSE "field_pow")
        /\ unwrap(call.right).t = "FieldElement" =>
              /\ result = Err("InvalidExponent", NatToString(unwrap(call.right).n))
              /\ GadgetsInvoked = {}
              /\ cs = call.cs

\* 2 ** field(5)
C6_Witness ==
    /\ Done("enforce_pow_expression")
    /\ call.left = UnresolvedV(<<2>>) /\ call.right = FieldV(5)
    /\ result = Err("InvalidExponent", "5")

(***************************************************************************)
(* C7: on the resolved operand pair, Eq returns the result of its gadget   *)
(* exactly for boolean-boolean, integer-integer and group-group; a         *)
(* field-field pair and every pair of different classes returns            *)
(* IncompatibleTypes("<lhs> == <rhs>") and invokes no gadget.              *)
(***************************************************************************)
EqGadget(class) ==
    CASE class = "Boolean" -> "boolean_eq"
      [] class = "Integer" -> "integer_eq"
      [] class = "GroupElement" -> "group_eq"

C7_EqDispatch ==
    (Done("evaluate_eq_expression") /\ Coercible) =>
        IF /\ ResolvedLeft.t = ResolvedRight.t
           /\ ResolvedLeft.t \in {"Boolean", "Integer", "GroupElement"}
        THEN /\ GadgetsInvoked # {}
             /\ log[Len(log)] = EqGadget(ResolvedLeft.t)
             /\ (ResolvedLeft.t = "Integer" /\ ResolvedLeft.ty # ResolvedRight.ty)
                    \/ result = Ok(BooleanV(ResolvedLeft = ResolvedRight))
        ELSE /\ result = Err("IncompatibleTypes",
                             Display(ResolvedLeft) \o " == " \o Display(ResolvedRight))
             /\ GadgetsInvoked = {}

\* field equality is disabled
C7_Witness ==
    /\ Done("evaluate_eq_expression")
    /\ call.left = MutableV(FieldV(5)) /\ call.right = FieldV(5)
    /\ result = Err("IncompatibleTypes", "5 == 5")

\* integer equality goes through the gadget
C7_WitnessGadget ==
    /\ Done("evaluate_eq_expression")
    /\ call.left = UnresolvedV(<<2>>) /\ call.right = IntegerV("u32", 2)
    /\ result = Ok(BooleanV(TRUE))
    /\ log = <<"from_other", "integer_eq">>

(***************************************************************************)
(* C8: Lt, Leq, Gt and Geq never produce a value: on every operand pair    *)
(* whose unwrapping and coercion succeed, two field elements included, the *)
(* result is IncompatibleTypes("<lhs> <op> <rhs>, values must be fields")  *)
(* with the operator's own symbol, no gadget is invoked and the constraint *)
(* system is as it was.                                                    *)
(***************************************************************************)
Ordering ==
    {"evaluate_geq_expression", "evaluate_gt_expression",
     "evaluate_leq_expression", "evaluate_lt_expression"}

SymbolOf(fn) ==
    CASE fn = "evaluate_geq_expression" -> ">="
      [] fn = "evaluate_gt_expression" -> ">"
      [] fn = "evaluate_leq_expression" -> "<="
      [] fn = "evaluate_lt_expression" -> "<"

C8_OrderingDisabled ==
    (pc = "done" /\ call.fn \in Ordering) =>
        /\ ~result.ok
        /\ cs = call.cs
        /\ GadgetsInvoked = {}
        /\ Coercible =>
              result = Err("IncompatibleTypes",
                           Display(ResolvedLeft) \o " " \o SymbolOf(call.fn) \o " "
                           \o Display(ResolvedRight) \o ", values must be fields")

\* two field elements compared
C8_Witness ==
    /\ Done("evaluate_lt_expression")
    /\ call.left = FieldV(0) /\ call.right = MutableV(FieldV(5))
    /\ result = Err("IncompatibleTypes", "0 < 5, values must be fields")

(***************************************************************************)
(* C9: IfElse evaluates its condition under expected_types = [Boolean]; a  *)
(* condition value that is not a Boolean returns IfElseConditional with    *)
(* neither branch evaluated; otherwise the second and then the third       *)
(* branch are evaluated under the outer expected_types whatever the        *)
(* condition's witness, and two Boolean branches or two Integer branches   *)
(* give the conditional select: the second branch's value when the         *)
(* condition is true and the third's when it is false.                     *)
(***************************************************************************)
Visit(et, expr) == [et |-> et, expr |-> expr]

Selectable(a, b) ==
    \/ a.t = "Boolean" /\ b.t = "Boolean"
    \/ a.t = "Integer" /\ b.t = "Integer"

C9_WitnessIntegers ==
    /\ Done("enforce_conditional_expression")
    /\ call.expr = IfElseE(BooleanE(FALSE), IntegerE("u32", 7), IntegerE("u8", 2))
    /\ result = Ok(IntegerV("u8", 2))
    /\ log = <<"integer_select">>

\* a condition that is an integer: neither branch is visited
C9_WitnessNotBoolean ==
    /\ Done("enforce_conditional_expression")
    /\ call.expr.first = IntegerE("u32", 1)
    /\ Failed("IfElseConditional")
    /\ Len(visits) = 2

(***************************************************************************)
(* C10 (the claim): under an expected array type, an array literal whose   *)
(* final element count differs from the innermost expected dimension is    *)
(* rejected with InvalidLength, so every Array it returns has that length. *)
(***************************************************************************)
C10_LengthValidated ==
    (/\ Done("enforce_array_expression")
     /\ call.et # <<>> /\ call.et[1].k = "Array"
     /\ result.ok) =>
        Len(result.val.elems) = call.et[1].dims[Len(call.et[1].dims)]

(***************************************************************************)
(* C11: array construction preserves order and splices spreads in place:   *)
(* the result is the concatenation, in element order, of each Expression   *)
(* element's value and each Spread identifier's stored array elements; a   *)
(* spread identifier is looked up in function scope only, a miss returns   *)
(* UndefinedArray, and a bound value that is not an Array, or a spread of  *)
(* an expression that is not an identifier, returns InvalidSpread.         *)
(***************************************************************************)
\* the expected types of the elements of the literal of the call
ElementTypes ==
    IF call.et # <<>> THEN <<inner_dimension(call.et[1], call.et[1].dims)>> ELSE <<>>

\* what one element of the literal contributes: Ok(its values in order) or its error
Contribution(element) ==
    IF element.s = "Spread"
    THEN IF element.x.e # "Identifier"
         THEN Err("InvalidSpread", ExprDisplay(element.x))
         ELSE LET key == call.function_scope \o "." \o element.x.name
              IN IF key \notin DOMAIN call.store
                 THEN Err("UndefinedArray", element.x.name)
                 ELSE IF call.store[key].t # "Array"
                 THEN Err("InvalidSpread", Display(call.store[key]))
                 ELSE Ok(call.store[key].elems)
    ELSE LET r == enforce_expression(AtEntry, call.file_scope, call.function_scope,
                                     ElementTypes, element.x).res
         IN IF r.ok THEN Ok(<<r.val>>) ELSE r

RECURSIVE Concatenation(_)
Concatenation(elements) ==
    IF elements = <<>> THEN <<>>
    ELSE Contribution(Head(elements)).val \o Concatenation(Tail(elements))

ArrayAccepted ==
    /\ Done("enforce_array_expression")
    /\ call.et = <<>> \/ call.et[1].k = "Array"

C11_SpliceInOrder ==
    ArrayAccepted =>
        LET elements == call.expr.elems
            failing == {i \in DOMAIN elements : ~Contribution(elements[i]).ok}
        IN IF failing = {}
           THEN result = Ok(ArrayV(Concatenation(elements)))
           ELSE result = Contribution(elements[CHOOSE i \in failing :
                                                  \A j \in failing : i <= j])

\* [2u32, ...xs] with xs bound to [1u32, 2u32] in function scope
C11_Witness ==
    /\ Done("enforce_array_expression")
    /\ call.expr.elems = <<ExpressionS(IntegerE("u32", 2)), SpreadS(IdentifierE("xs"))>>
    /\ call.et = <<>>
    /\ result = Ok(ArrayV(<<IntegerV("u32", 2), IntegerV("u32", 1), IntegerV("u32", 2)>>))

(***************************************************************************)
(* C12: array slicing a[from..to] returns a clone of exactly the elements  *)
(* at positions from..to-1 in their original order, a missing from being 0 *)
(* and a missing to the array length; in particular a[0..len(a)], a[..],   *)
(* a[0..] and a[..len(a)] all equal a, for a plain Array and for an Array  *)
(* wrapped in one Mutable.                                                 *)
(***************************************************************************)
\* the value of the accessed expression of the call, evaluated at entry
Accessed ==
    enforce_expression(AtEntry, call.file_scope, call.function_scope, call.et,
                       call.expr.array).res

SlicesArray ==
    /\ Done("enforce_array_access_expression")
    /\ call.expr.index.r = "Range"
    /\ Accessed.ok
    /\ \/ Accessed.val.t = "Array"
       \/ Accessed.val.t = "Mutable" /\ Accessed.val.val.t = "Array"

C12_Slice ==
    SlicesArray =>
        LET a == IF Accessed.val.t = "Array" THEN Accessed.val.elems
                 ELSE Accessed.val.val.elems
            range == call.expr.index
            from == IF range.from = <<>> THEN 0 ELSE range.from[1]
            to == IF range.to = <<>> THEN Len(a) ELSE range.to[1]
        IN /\ (from <= to /\ to <= Len(a)) =>
                /\ result = Ok(ArrayV([i \in 1..(to - from) |-> a[from + i]]))
                /\ store = call.store
           /\ (from = 0 /\ to = Len(a)) => result = Ok(ArrayV(a))

\* [1, 2, 3][1..] under u32[3]
C12_Witness ==
    /\ Done("enforce_array_access_expression")
    /\ call.expr = ArrayAccessE(ArrayE(<<ExpressionS(ImplicitE(<<1>>)),
                                         ExpressionS(ImplicitE(<<2>>)),
                                         ExpressionS(ImplicitE(<<3>>))>>),
                                RangeR(<<1>>, <<>>))
    /\ call.et = <<ArrayT(IntegerT("u32"), <<3>>)>>
    /\ result = Ok(ArrayV(<<IntegerV("u32", 2), IntegerV("u32", 3)>>))

\* ma[..] with ma bound to a Mutable array of three elements
C12_WitnessMutable ==
    /\ Done("enforce_array_access_expression")
    /\ call.expr = ArrayAccessE(IdentifierE("ma"), RangeR(<<>>, <<>>))
    /\ result = Ok(call.store["main.f.ma"].val)

(***************************************************************************)
(* C13: a record literal yields CircuitExpression(identifier, members)     *)
(* whose members follow the declaration order of the CircuitDefinition     *)
(* whatever the order of the supplied bindings (any permutation of a       *)
(* binding list with distinct identifiers gives the same value); each data *)
(* field is bound to the value of the first binding with that identifier   *)
(* evaluated under expected_types = [declared type], each function member  *)
(* becomes Function(Some(record id), ast), wrapped in Static when static,  *)
(* a declared data field with no binding returns ExpectedCircuitValue, and *)
(* a name not bound to a CircuitDefinition in file scope returns           *)
(* UndefinedCircuit.                                                       *)
(***************************************************************************)
\* the file-scope key of the record named by the literal (Self names the scope itself)
DefinitionKey ==
    IF call.expr.name = "Self" THEN call.file_scope
    ELSE call.file_scope \o "." \o call.expr.name

Defined ==
    /\ DefinitionKey \in DOMAIN call.store
    /\ call.store[DefinitionKey].t = "CircuitDefinition"

\* what the declared member contributes given the bindings: Ok(member) or an error
MemberOutcome(declared, bindings) ==
    IF declared.m = "CircuitField"
    THEN LET bound == {i \in DOMAIN bindings : bindings[i].identifier = declared.identifier}
         IN IF bound = {} THEN Err("ExpectedCircuitValue", declared.identifier)
            ELSE LET first == bindings[CHOOSE i \in bound : \A j \in bound : i <= j]
                     r == enforce_expression(AtEntry, call.file_scope,
                              call.function_scope, <<declared.type>>, first.expression).res
                 IN IF r.ok THEN Ok(ConstrainedCircuitMember(declared.identifier, r.val))
                    ELSE r
    ELSE LET f == FunctionV(<<call.store[DefinitionKey].identifier>>, declared.function)
         IN Ok(ConstrainedCircuitMember(declared.function.function_name,
                                        IF declared.static THEN StaticV(f) ELSE f))

Reorderings(n) == {p \in [1..n -> 1..n] : \A i, j \in 1..n : p[i] = p[j] => i = j}
Distinct(bindings) ==
    \A i, j \in DOMAIN bindings : bindings[i].identifier = bindings[j].identifier => i = j

C13_RecordLiteral ==
    Done("enforce_circuit_expression") =>
        IF ~Defined THEN result = Err("UndefinedCircuit", call.expr.name)
        ELSE
        LET definition == call.store[DefinitionKey]
            bindings == call.expr.members
            outcome == [i \in DOMAIN definition.members |->
                           MemberOutcome(definition.members[i], bindings)]
            failing == {i \in DOMAIN outcome : ~outcome[i].ok}
        IN /\ IF failing = {}
              THEN result = Ok(CircuitExpressionV(definition.identifier,
                                   [i \in DOMAIN outcome |-> outcome[i].val]))
              ELSE result = outcome[CHOOSE i \in failing : \A j \in failing : i <= j]
           /\ Distinct(bindings) =>
                \A p \in Reorderings(Len(bindings)) :
                    LET permuted == enforce_expression(AtEntry, call.file_scope,
                                        call.function_scope, call.et,
                                        CircuitE(call.expr.name,
                                                 [i \in DOMAIN bindings |-> bindings[p[i]]]))
                    IN /\ permuted.res = result
                       /\ permuted.m.cs = cs
                       /\ permuted.m.store = store

\* Point { y = 4, x = 3 } with Point declared as x: u32, norm, y: u8, static origin
C13_Witness ==
    /\ Done("enforce_circuit_expression")
    /\ call.expr = CircuitE("Point", <<CircuitFieldDefinition("y", ImplicitE(<<4>>)),
                                       CircuitFieldDefinition("x", ImplicitE(<<3>>))>>)
    /\ result = Ok(CircuitExpressionV("Point",
                      <<ConstrainedCircuitMember("x", IntegerV("u32", 3)),
                        ConstrainedCircuitMember("norm", FunctionV(<<"Point">>, Norm)),
                        ConstrainedCircuitMember("y", IntegerV("u8", 4)),
                        ConstrainedCircuitMember("origin",
                            StaticV(FunctionV(<<"Point">>, Origin)))>>))

(***************************************************************************)
(* C14: instance member access value.name on a CircuitExpression (possibly *)
(* under one Mutable) returns the first member named name; when that       *)
(* member is a data field the scope store is left unchanged, and when it   *)
(* is an instance Function the store afterwards maps, for every sibling    *)
(* member that is neither a Function nor Static, the key                   *)
(* file_scope.record_name.method_name.field_name to that sibling's value   *)
(* and no other key of the store is changed.  A value that is not a record *)
(* returns InvalidCircuitAccess and an unknown name returns                *)
(* UndefinedCircuitObject, both without changing the store.  The store is  *)
(* compared with the store left by the evaluation of value.                *)
(***************************************************************************)
\* the evaluation of the accessed expression of the call, from the state at entry
Receiver ==
    enforce_expression(AtEntry, call.file_scope, call.function_scope, call.et,
                       call.expr.circuit)

IsRecord(v) ==
    \/ v.t = "CircuitExpression"
    \/ v.t = "Mutable" /\ v.val.t = "CircuitExpression"

C14_MemberAccess ==
    (Done("enforce_circuit_access_expression") /\ Receiver.res.ok) =>
        LET before == Receiver.m.store
            value == Receiver.res.val
        IN IF ~IsRecord(value)
           THEN Failed("InvalidCircuitAccess") /\ store = before
           ELSE
           LET record == IF value.t = "Mutable" THEN value.val ELSE value
               named == {i \in DOMAIN record.members :
                            record.members[i].id = call.expr.member}
           IN IF named = {}
              THEN result = Err("UndefinedCircuitObject", call.expr.member)
                   /\ store = before
              ELSE
              LET member == record.members[CHOOSE i \in named : \A j \in named : i <= j]
                  fields == {i \in DOMAIN record.members :
                                record.members[i].val.t \notin {"Function", "Static"}}
                  KeyOf(i) == call.file_scope \o "." \o record.name \o "."
                              \o member.id \o "." \o record.members[i].id
              IN /\ result = Ok(member.val)
                 /\ IF member.val.t = "Function"
                    THEN /\ DOMAIN store = DOMAIN before \cup {KeyOf(i) : i \in fields}
                         /\ \A i \in fields : store[KeyOf(i)] = record.members[i].val
                         /\ \A key \in DOMAIN before \ {KeyOf(i) : i \in fields} :
                                store[key] = before[key]
                    ELSE store = before

\* p.norm: the fields x and y of p are stored for the method, x over an older value
C14_Witness ==
    /\ Done("enforce_circuit_access_expression")
    /\ call.expr = CircuitMemberAccessE(IdentifierE("p"), "norm")
    /\ "main.Point.norm.x" \in DOMAIN call.store
    /\ result = Ok(FunctionV(<<"Point">>, Norm))
    /\ store["main.Point.norm.x"] = IntegerV("u32", 3)
    /\ store["main.Point.norm.y"] = MutableV(IntegerV("u8", 4))
    /\ store["main.Point.x"] = call.store["main.Point.x"]

\* q.get where a data field named get precedes the method get
C14_WitnessField ==
    /\ Done("enforce_circuit_access_expression")
    /\ call.expr = CircuitMemberAccessE(IdentifierE("q"), "get")
    /\ result = Ok(IntegerV("u32", 7))
    /\ store = call.store

(***************************************************************************)
(* C15 (the claim): static access Type::name on a CircuitDefinition        *)
(* returns Function(Some(record id), f) where f is the record's static     *)
(* function named name; if the member named name is a function that is not *)
(* static the result is InvalidStaticFunction, and if the record has no    *)
(* static function of that name the result is UndefinedStaticFunction      *)
(* (also when it has static functions with other names); a type expression *)
(* that is not a CircuitDefinition returns InvalidCircuitAccess.           *)
(***************************************************************************)
C15_StaticAccess ==
    (Done("enforce_circuit_static_access_expression") /\ Receiver.res.ok) =>
        LET type == Receiver.res.val
        IN IF type.t # "CircuitDefinition" THEN Failed("InvalidCircuitAccess")
           ELSE
           LET functions == {i \in DOMAIN type.members :
                                /\ type.members[i].m = "CircuitFunction"
                                /\ type.members[i].function.function_name
                                       = call.expr.member}
               statics == {i \in functions : type.members[i].static}
           IN IF statics # {}
              THEN \E i \in statics :
                      result = Ok(FunctionV(<<type.identifier>>, type.members[i].function))
              ELSE IF functions # {} THEN Failed("InvalidStaticFunction")
              ELSE Failed("UndefinedStaticFunction")

(***************************************************************************)
(* C16: a function call evaluates its callee once; a callee value that is  *)
(* not a Function returns UndefinedFunction without invoking anything;     *)
(* otherwise the invoker is called exactly once, with outer scope          *)
(* file_scope.record_identifier when the Function carries a record         *)
(* identifier and file_scope when it does not, and its result is mapped    *)
(* as: Return([v]) gives v, Return of two or more values is returned       *)
(* unchanged, any value that is not a Return gives FunctionDidNotReturn,   *)
(* and an error of the invoker is propagated.                              *)
(***************************************************************************)
\* the evaluation of the callee of the call, from the state at entry
Callee ==
    enforce_expression(AtEntry, call.file_scope, call.function_scope, call.et,
                       call.expr.function)

C16_FunctionCall ==
    Done("enforce_function_call_expression") =>
        /\ Cardinality({i \in DOMAIN visits : visits[i].expr = call.expr.function}) = 1
        /\ Callee.res.ok =>
            LET value == Callee.res.val
            IN IF value.t # "Function"
               THEN Failed("UndefinedFunction") /\ log = Callee.m.log
               ELSE
               LET scope == IF value.circuit = <<>> THEN call.file_scope
                            ELSE call.file_scope \o "." \o value.circuit[1]
                   returned == value.function.body
               IN /\ log = Append(Callee.m.log, "invoke " \o scope \o " "
                                                \o value.function.function_name)
                  /\ IF ~returned.ok THEN ~result.ok /\ result.msg = returned.msg
                     ELSE IF returned.val.t # "Return" THEN Failed("FunctionDidNotReturn")
                     ELSE IF Len(returned.val.vals) = 1
                     THEN result = Ok(returned.val.vals[1])
                     ELSE Len(returned.val.vals) >= 2 => result = returned

\* p.norm() on the record p: invoked once in the scope main.Point, Return([5]) gives 5
C16_Witness ==
    /\ Done("enforce_function_call_expression")
    /\ call.expr.function = CircuitMemberAccessE(IdentifierE("p"), "norm")
    /\ log = <<"invoke main.Point norm">>
    /\ result = Ok(IntegerV("u32", 5))

\* g() where the body of g returns two values: the Return is handed back unchanged
C16_WitnessPair ==
    /\ Done("enforce_function_call_expression")
    /\ call.expr.function = IdentifierE("g")
    /\ log = <<"invoke main g">>
    /\ result = Ok(ReturnV(<<IntegerV("u32", 5), BooleanV(TRUE)>>))

(***************************************************************************)
(* C17 (as stated): constraint emission follows source order at every      *)
(* node: for any two subexpressions A before B in source order of the same *)
(* node (left and right operand of a binary operator; condition,           *)
(* then-branch, else-branch of a ternary; consecutive elements of an array *)
(* literal; consecutive field bindings of a record literal as written),    *)
(* every constraint emitted while evaluating A precedes every constraint   *)
(* emitted while evaluating B, and the operator's own gadget constraints   *)
(* come after both.                                                        *)
(***************************************************************************)
Child(expression, expected_types) == [x |-> expression, et |-> expected_types]

\* the bindings of the literal that bind a declared data field, each field once
Binding(bindings) ==
    LET declared == {member.identifier :
                        member \in {m \in {call.store[DefinitionKey].members[i] :
                                               i \in DOMAIN call.store[DefinitionKey].members} :
                                        m.m = "CircuitField"}}
    IN {i \in DOMAIN bindings :
           /\ bindings[i].identifier \in declared
           /\ \A j \in 1..(i - 1) : bindings[j].identifier # bindings[i].identifier}

DeclaredType(identifier) ==
    LET members == call.store[DefinitionKey].members
    IN members[CHOOSE i \in DOMAIN members :
                  members[i].m = "CircuitField" /\ members[i].identifier = identifier].type

\* positions of the sequence taken in increasing order
RECURSIVE Pick(_, _)
Pick(seq, positions) ==
    IF positions = {} THEN <<>>
    ELSE LET i == CHOOSE p \in positions : \A q \in positions : p <= q
         IN <<seq[i]>> \o Pick(seq, positions \ {i})

\* the subexpressions of the node of the call in the order they are written
ChildrenAsWritten ==
    LET expression == call.expr
    IN CASE expression.e \in BinaryNodes ->
                <<Child(expression.left, call.et), Child(expression.right, call.et)>>
         [] expression.e = "IfElse" ->
                <<Child(expression.first, <<BooleanT>>), Child(expression.second, call.et),
                  Child(expression.third, call.et)>>
         [] expression.e = "Array" ->
                [i \in DOMAIN expression.elems |-> Child(expression.elems[i].x, call.et)]
         [] expression.e = "Circuit" ->
                Pick([i \in DOMAIN expression.members |->
                         Child(expression.members[i].expression,
                               <<DeclaredType(expression.members[i].identifier)>>)],
                     Binding(expression.members))

\* the same subexpressions, the bindings of a record literal in declaration order
ChildrenAsDeclared ==
    IF call.expr.e # "Circuit" THEN ChildrenAsWritten
    ELSE LET members == call.store[DefinitionKey].members
             bindings == call.expr.members
             bound == {i \in DOMAIN members :
                          /\ members[i].m = "CircuitField"
                          /\ \E j \in DOMAIN bindings :
                                 bindings[j].identifier = members[i].identifier}
         IN Pick([i \in DOMAIN members |->
                     IF i \in bound
                     THEN LET j == CHOOSE j \in Binding(bindings) :
                                      bindings[j].identifier = members[i].identifier
                          IN Child(bindings[j].expression, <<members[i].type>>)
                     ELSE Child(NoExpression, <<>>)],
                 bound)

\* the evaluation of the subexpression on its own, from an empty constraint system
Alone(child) ==
    enforce_expression([AtEntry EXCEPT !.cs = <<>>], call.file_scope,
                       call.function_scope, child.et, child.x)

\* the constraints of the subexpressions one after the other, up to the first that fails
RECURSIVE EmittedInOrder(_)
EmittedInOrder(children) ==
    IF children = <<>> THEN <<>>
    ELSE Alone(Head(children)).m.cs
         \o (IF Alone(Head(children)).res.ok THEN EmittedInOrder(Tail(children))
             ELSE <<>>)

\* cs is call.cs, then the constraints of the children in the given order, then
\* at most one constraint group of the node's own gadget
FollowsOrder(children) ==
    LET expected == call.cs \o EmittedInOrder(children)
    IN /\ Len(cs) >= Len(expected)
       /\ SubSeq(cs, 1, Len(expected)) = expected
       /\ Len(cs) <= Len(expected) + 1

\* a record literal is considered when it binds every declared data field
OrderedNode ==
    /\ Done("enforce_expression")
    /\ call.expr.e = "Circuit" =>
          /\ Defined
          /\ \A i \in DOMAIN call.store[DefinitionKey].members :
                call.store[DefinitionKey].members[i].m = "CircuitField" =>
                    \E j \in DOMAIN call.expr.members :
                        call.expr.members[j].identifier
                            = call.store[DefinitionKey].members[i].identifier

C17_AsStated == OrderedNode => FollowsOrder(ChildrenAsWritten)

(***************************************************************************)
(* C17 (amended): constraint emission follows evaluation order at every    *)
(* node: left before right operand of a binary operator; condition, then   *)
(* then-branch, then else-branch of a ternary; the elements of an array    *)
(* literal in source order; the field bindings of a record literal in the  *)
(* declaration order of the fields in the CircuitDefinition, whatever the  *)
(* order they are written in; the constraints of an earlier subexpression  *)
(* all precede those of a later one and the node's own gadget constraints  *)
(* come after all of them.                                                 *)
(***************************************************************************)
C17_EmissionOrder == OrderedNode => FollowsOrder(ChildrenAsDeclared)

\* Point { y = 2u8 + 2u8, x = 1u32 + 2u32 }: the constraints of x come first
C17_Witness ==
    /\ Done("enforce_expression")
    /\ call.expr = CircuitE("Point",
           <<CircuitFieldDefinition("y", BinaryE("Add", IntegerE("u8", 2), IntegerE("u8", 2))),
             CircuitFieldDefinition("x", BinaryE("Add", IntegerE("u32", 1), IntegerE("u32", 2)))>>)
    /\ call.cs = <<>>
    /\ result.ok
    /\ cs = <<[g |-> "integer_add", a |-> IntegerV("u32", 1), b |-> IntegerV("u32", 2)],
              [g |-> "integer_add", a |-> IntegerV("u8", 2), b |-> IntegerV("u8", 2)]>>

\* (1u32 + 2u32) * (2u32 * 3u32): left, right, then the product's own constraint
C17_WitnessBinary ==
    /\ Done("enforce_expression")
    /\ call.expr = BinaryE("Mul", BinaryE("Add", IntegerE("u32", 1), IntegerE("u32", 2)),
                                  BinaryE("Mul", IntegerE("u32", 2), IntegerE("u32", 3)))
    /\ call.cs = <<Prior>>
    /\ cs = <<Prior,
              [g |-> "integer_add", a |-> IntegerV("u32", 1), b |-> IntegerV("u32", 2)],
              [g |-> "integer_mul", a |-> IntegerV("u32", 2), b |-> IntegerV("u32", 3)],
              [g |-> "integer_mul", a |-> IntegerV("u32", 3), b |-> IntegerV("u32", 6)]>>

(***************************************************************************)
(* C18 (the claim): for every expression and every scope store,            *)
(* enforce_expression ends inside the evaluator's own code by returning a  *)
(* value or an error of the closed taxonomy by value; the evaluator itself *)
(* never aborts, whatever the branch pair of a ternary, the scalar index   *)
(* applied to an array, or the endpoints of a slice (the gadgets of the    *)
(* model never abort, so every abort is the evaluator's own).              *)
(***************************************************************************)
C18_NeverAborts == pc = "done" => (result.ok \/ result.kind # "abort")

(***************************************************************************)
(* C19: enforce_number_implicit(expected_types, text) returns              *)
(* from_type(text, expected_types[0]), its parse error included, exactly   *)
(* when expected_types has length 1, and Unresolved(text) when             *)
(* expected_types is empty or has two or more entries; evaluate_identifier *)
(* applies the same rule to a stored Unresolved value, so an identifier    *)
(* bound to Unresolved(t) evaluated under exactly one expected type never  *)
(* returns Unresolved.                                                     *)
(***************************************************************************)
\* the value evaluate_identifier selects for the name of the call
Selected ==
    IF FunctionKey \in DOMAIN call.store THEN call.store[FunctionKey]
    ELSE call.store[FileKey]

ImplicitRule(expected_types, text) ==
    IF Len(expected_types) = 1 THEN from_type(text, expected_types[1])
    ELSE Ok(UnresolvedV(text))

IsUnresolved(r) == r.ok /\ r.val.t = "Unresolved"

C19_ImplicitRule ==
    /\ Done("enforce_number_implicit") =>
          /\ result = ImplicitRule(call.et, call.expr.text)
          /\ IsUnresolved(result) <=> Len(call.et) # 1
    /\ (/\ Done("evaluate_identifier")
        /\ {FunctionKey, FileKey} \cap DOMAIN call.store # {}
        /\ Selected.t = "Unresolved") =>
          /\ result = ImplicitRule(call.et, Selected.text)
          /\ Len(call.et) = 1 => ~IsUnresolved(result)

\* the literal 300 under [u8]: the parse error of from_type is returned
C19_Witness ==
    /\ Done("enforce_number_implicit")
    /\ call.et = <<IntegerT("u8")>>
    /\ call.expr.text = <<3, 0, 0>>
    /\ Failed("ValueError")

\* x bound to Unresolved(5) in function scope, evaluated under [u32]
C19_WitnessIdentifier ==
    /\ Done("evaluate_identifier")
    /\ FunctionKey \in DOMAIN call.store
    /\ call.store[FunctionKey] = UnresolvedV(<<5>>)
    /\ call.et = <<IntegerT("u32")>>
    /\ result = Ok(IntegerV("u32", 5))

(***************************************************************************)
(* C20 (the claim): every Array value returned by array construction has   *)
(* all its elements of the same primitive variant, for every combination   *)
(* of expected type (absent or an array type), explicitly typed literal    *)
(* elements, untyped literal elements and spliced spread arrays.           *)
(***************************************************************************)
C20_Homogeneous ==
    (Done("enforce_array_expression") /\ result.ok) =>
        \A i, j \in DOMAIN result.val.elems :
            result.val.elems[i].t = result.val.elems[j].t

(***************************************************************************)
(* C21 (the claim): in an array access with a scalar index the index       *)
(* expression is evaluated under empty expected types whatever the         *)
(* expected types of the enclosing access: an untyped literal index k      *)
(* reaches enforce_index as Unresolved(k) and selects element k for every  *)
(* outer expected type, and an index value that is neither an Integer nor  *)
(* an unsigned-parseable Unresolved literal returns InvalidIndex.          *)
(***************************************************************************)
\* the evaluation of the accessed expression of the call, from the entry state
AccessedOut ==
    enforce_expression(AtEntry, call.file_scope, call.function_scope, call.et,
                       call.expr.array)

\* the value of the index expression under empty expected types
IndexValue ==
    enforce_expression(AccessedOut.m, call.file_scope, call.function_scope, <<>>,
                       call.expr.index.x).res

IndexesArray ==
    /\ Done("enforce_array_access_expression")
    /\ call.expr.index.r = "Expression"
    /\ Accessed.ok
    /\ \/ Accessed.val.t = "Array"
       \/ Accessed.val.t = "Mutable" /\ Accessed.val.val.t = "Array"

C21_IndexUnderEmptyTypes ==
    IndexesArray =>
        LET a == IF Accessed.val.t = "Array" THEN Accessed.val.elems
                 ELSE Accessed.val.val.elems
            index == call.expr.index.x
            \* the access node is visited first, then the nodes of the array, then the index
            at == Len(AccessedOut.m.visits) + 2
        IN /\ Len(visits) >= at
           /\ visits[at] = Visit(<<>>, index)
           /\ (index.e = "Implicit" /\ parse_usize(index.text).ok
                                     /\ ParseNat(index.text) < Len(a)) =>
                 result = Ok(a[ParseNat(index.text) + 1])
           /\ (/\ IndexValue.ok
               /\ IndexValue.val.t # "Integer"
               /\ ~(IndexValue.val.t = "Unresolved" /\ parse_usize(IndexValue.val.text).ok))
              => Failed("InvalidIndex")

(***************************************************************************)
(* C22 (as stated): whenever a function call hands the invoker a Function  *)
(* that carries an owning-record identifier, obtained by instance access,  *)
(* by static access Type::name or from the member list of a record         *)
(* literal, the scope store at that moment holds the data fields of the    *)
(* record under the keys file_scope.record_name.method_name.field_name.    *)
(***************************************************************************)
\* the last call of the function invoker
Dispatch == dispatches[Len(dispatches)]

\* the callee of the call is a member access: value.name or Type::name
ByInstance == call.expr.function.e = "CircuitMemberAccess"
ByStatic == call.expr.function.e = "CircuitStaticFunctionAccess"

\* the call hands the invoker a Function that carries a record identifier
HandsMethod ==
    /\ Done("enforce_function_call_expression")
    /\ ByInstance \/ ByStatic
    /\ Callee.res.ok
    /\ Callee.res.val.t = "Function"
    /\ Callee.res.val.circuit # <<>>

\* the names of the data fields the record definition in file scope declares
DeclaredFields(record_name) ==
    LET definition == call.store[call.file_scope \o "." \o record_name]
    IN {definition.members[i].identifier :
            i \in {j \in DOMAIN definition.members :
                      definition.members[j].m = "CircuitField"}}

FieldKey(record_name, method_name, field_name) ==
    call.file_scope \o "." \o record_name \o "." \o method_name \o "." \o field_name

C22_AsStated ==
    HandsMethod =>
        /\ dispatches # <<>>
        /\ LET method == Callee.res.val
           IN \A field \in DeclaredFields(method.circuit[1]) :
                 FieldKey(method.circuit[1], method.function.function_name, field)
                    \in DOMAIN Dispatch.store

(***************************************************************************)
(* C22: whenever a function call hands the invoker a Function obtained by  *)
(* instance access value.name (value a stored record instance or a record  *)
(* literal), the invoker is called once and the scope store at that call   *)
(* holds every data field of the instance (every member that is neither a  *)
(* Function nor a Static) under file_scope.record_name.method_name.         *)
(* field_name, written over any older value and nothing else changed since *)
(* the evaluation of value; a Function obtained by static access           *)
(* Type::name has no instance and is invoked in the scope                  *)
(* file_scope.record_name with the scope store as it was at entry.         *)
(***************************************************************************)
\* the evaluation of the receiver of the callee, from the state at entry
CalleeReceiver ==
    enforce_expression(AtEntry, call.file_scope, call.function_scope, call.et,
                       call.expr.function.circuit)

C22_FieldsBoundBeforeDispatch ==
    HandsMethod =>
        /\ Len(dispatches) = 1
        /\ Dispatch.function = Callee.res.val.function
        /\ Dispatch.scope = call.file_scope \o "." \o Callee.res.val.circuit[1]
        /\ store = Dispatch.store
        /\ IF ByStatic THEN Dispatch.store = call.store
           ELSE
           LET before == CalleeReceiver.m.store
               value == CalleeReceiver.res.val
               record == IF value.t = "Mutable" THEN value.val ELSE value
               fields == {i \in DOMAIN record.members :
                             record.members[i].val.t \notin {"Function", "Static"}}
               KeyOf(i) == FieldKey(record.name, call.expr.function.member,
                                    record.members[i].id)
           IN /\ fields # {}
              /\ \A i \in fields :
                    /\ KeyOf(i) \in DOMAIN Dispatch.store
                    /\ Dispatch.store[KeyOf(i)] = record.members[i].val
              /\ DOMAIN Dispatch.store = DOMAIN before \cup {KeyOf(i) : i \in fields}
              /\ \A key \in DOMAIN before \ {KeyOf(i) : i \in fields} :
                    Dispatch.store[key] = before[key]

\* Point { y: 4, x: 3 }.norm(): x and y are in the store when norm is invoked
C22_Witness ==
    /\ HandsMethod
    /\ call.expr.function.circuit.e = "Circuit"
    /\ "main.Point.norm.x" \notin DOMAIN call.store
    /\ Len(dispatches) = 1
    /\ Dispatch.scope = "main.Point"
    /\ Dispatch.function = Norm
    /\ Dispatch.store["main.Point.norm.x"] = IntegerV("u32", 3)
    /\ Dispatch.store["main.Point.norm.y"] = IntegerV("u8", 4)

\* Point::origin(): invoked in main.Point with no field of Point in the store
C22_WitnessStatic ==
    /\ HandsMethod
    /\ ByStatic
    /\ Len(dispatches) = 1
    /\ Dispatch.scope = "main.Point"
    /\ Dispatch.function = Origin
    /\ Dispatch.store = call.store
    /\ "main.Point.origin.x" \notin DOMAIN Dispatch.store

(***************************************************************************)
(* C23 (the claim): Mutable is transparent to the ternary operator: an     *)
(* IfElse whose condition evaluates to Mutable(Boolean(c)), or whose       *)
(* branches evaluate to Mutable-wrapped Booleans or Integers, gives the    *)
(* same result as the same IfElse with the wrappers removed.               *)
(***************************************************************************)
\* the value of a part of the ternary of the call under its expected types
PartValue(expected_types, part) ==
    enforce_expression(AtEntry, call.file_scope, call.function_scope, expected_types,
                       part).res

WrapsOneOf(res, variants) ==
    res.ok /\ res.val.t = "Mutable" /\ unwrap(res.val).t \in variants

\* the store at entry with the Mutable wrappers of its values removed
Unwrapped == [key \in DOMAIN call.store |-> unwrap(call.store[key])]

\* the same ternary evaluated with the wrappers removed
WithoutWrappers ==
    enforce_conditional_expression([AtEntry EXCEPT !.store = Unwrapped],
        call.file_scope, call.function_scope, call.et,
        call.expr.first, call.expr.second, call.expr.third).res

C23_MutableTransparentTernary ==
    (/\ Done("enforce_conditional_expression")
     /\ \/ WrapsOneOf(PartValue(<<BooleanT>>, call.expr.first), {"Boolean"})
        \/ WrapsOneOf(PartValue(call.et, call.expr.second), {"Boolean", "Integer"})
        \/ WrapsOneOf(PartValue(call.et, call.expr.third), {"Boolean", "Integer"}))
    => result = WithoutWrappers

(***************************************************************************)
(* C24: the operand resolution of every binary operator terminates: from   *)
(* any pair of operands with finite Mutable nesting, from_other returning  *)
(* an error or a primitive value, each call of the operator to itself      *)
(* removes one Mutable wrapper or one Unresolved operand, so the operator  *)
(* reaches a gadget call or an error after at most (total Mutable depth +  *)
(* number of Unresolved operands) recursive calls.                         *)
(***************************************************************************)
\* the number of operands that are an Unresolved literal under their wrappers
UnresolvedOperands ==
    (IF unwrap(call.left).t = "Unresolved" THEN 1 ELSE 0)
    + (IF unwrap(call.right).t = "Unresolved" THEN 1 ELSE 0)

TotalMutableDepth == MutDepth(call.left) + MutDepth(call.right)

\* the literal parser was called once for each Unresolved operand that was removed
Coerced == Count(log, "from_other")

C24_ResolutionTerminates ==
    DoneBinary =>
        /\ recursions <= TotalMutableDepth + UnresolvedOperands
        \* every recursive call removed a wrapper or followed a successful coercion
        /\ recursions <= TotalMutableDepth + Coerced
        /\ Coerced <= UnresolvedOperands
        \* the operator ended at a gadget, called once, or at an error
        /\ IF result.ok THEN Cardinality(GadgetsInvoked) = 1
           ELSE result.kind # "none"

\* mut mut 2 + mut 2u32: three wrappers and one literal removed in four recursive calls
C24_Witness ==
    /\ Done("enforce_add_expression")
    /\ call.left = MutableV(MutableV(UnresolvedV(<<2>>)))
    /\ call.right = MutableV(IntegerV("u32", 2))
    /\ recursions = 4
    /\ log = <<"from_other", "integer_add">>
    /\ result = Ok(IntegerV("u32", 4))

\* mut 300 ** mut 2u8: the coercion fails after the two wrappers were removed
C24_WitnessError ==
    /\ Done("enforce_pow_expression")
    /\ call.left = MutableV(UnresolvedV(<<3, 0, 0>>))
    /\ call.right = MutableV(IntegerV("u8", 2))
    /\ recursions = 2
    /\ ~result.ok

====
